---- MODULE Spec2Model ----
(***************************************************************************)
(* Model of the streaming token-to-audio pipeline of                       *)
(* tts_engine/inference.py: the framer tokens_decoder, and the producer /  *)
(* bounded queue / consumer of tokens_decoder_sync.                        *)
(*                                                                         *)
(* Python values: an Optional value is a record [none, ...]; a byte string *)
(* is a sequence of byte values; a token is the result of                  *)
(* turn_token_into_id, an Optional int.                                    *)
(***************************************************************************)
EXTENDS Integers, Sequences, FiniteSets, TLC

VARIABLES
    HIGH_END_GPU,            \* module constant (line 43..54), fixed per process
    output_file,             \* TRUE iff tokens_decoder_sync got an output_file
    decode_fn,               \* which decode collaborator: "fixed" or "tagged"
    tokens,                  \* ids pulled from the token generator so far
    batch,                   \* async_token_gen: batch
    batch_i,                 \* async_token_gen: position of "for t in batch"
    atg_pc,                  \* async_token_gen: "fill" | "drain" | "final"
    buffer,                  \* tokens_decoder: buffer
    count,                   \* tokens_decoder: count
    first_chunk_processed,   \* tokens_decoder: first_chunk_processed
    buffer_to_proc,          \* tokens_decoder: buffer_to_proc
    audio_samples,           \* tokens_decoder: audio_samples
    calls,                   \* history: <<count, result>> of every decode call
    yielded,                 \* history: every value tokens_decoder yielded
    prod_pc,                 \* position of the producer thread
    caught,                  \* which exception async_producer caught
    producer_started_event,
    producer_done_event,
    audio_queue,
    enqueued,                \* history: every item put into audio_queue
    cons_pc,                 \* position of the consumer (calling thread)
    audio_segments,
    write_buffer,
    sink,                    \* bytes written to wav_file by writeframes
    join_warned,             \* the thread outlived join(timeout=10.0)
    api_pc,                  \* position of generate_speech_from_api
    api_result,              \* the pair generate_speech_from_api returns
    out_exists,              \* os.path.exists(output_file) as the final checks see it
    out_size,                \* os.path.getsize(output_file) as the final checks see it
    prompt,                  \* generate_speech_from_api: prompt (a sequence of characters)
    use_batching,
    max_batch_chars,
    sentences,               \* result of split_text_into_sentences(prompt)
    batches,
    batch_no,                \* position of "for i, batch_text in enumerate(batches)"
    batch_temp_files,
    all_audio_segments,
    pipeline_runs,           \* history: text and target of every tokens_decoder_sync call
    split_calls,             \* history: calls of split_text_into_sentences
    stitch_calls,            \* history: calls of stitch_wav_files
    input_files,             \* stitch_wav_files: content of each input file
    unreadable,              \* index of the input file wave.open fails on (0: none)
    st_pc,                   \* position of stitch_wav_files
    st_i,                    \* stitch_wav_files: i of "for i, input_file in enumerate"
    final_audio,             \* stitch_wav_files: final_audio
    final_src,               \* history: the input files each sample of final_audio came from
    first_params,            \* stitch_wav_files: first_params
    st_out,                  \* the output file stitch_wav_files wrote, if any
    boundaries,              \* history: what was done at each boundary
    retry_count,             \* generate_tokens_from_api: retry_count
    tok_pc,                  \* position of generate_tokens_from_api
    requests,                \* history: outcome of every session.post
    waits,                   \* history: every time.sleep(wait_time)
    pending,                 \* tokens of the response not yet yielded
    tok_yielded,             \* history: tokens generate_tokens_from_api yielded
    monitors,                \* every PerformanceMonitor object created
    perf_monitor,            \* the module global: index of an object of monitors
    req_pc,                  \* position of each call of generate_speech_from_api
    req_runs,                \* pipeline runs each call makes (1: not batched)
    req_run,                 \* the pipeline run each call is in
    run_events,              \* counter updates the current run of each call made
    touched,                 \* history: the runs that read or wrote each monitor
    now,                     \* time.time(), in units of check_interval
    last_check_time,         \* tokens_decoder_sync: last_check_time
    polled,                  \* a get has timed out since the clock last advanced
    at_tick,                 \* history: bytes written and segments received when the clock last advanced
    stale,                   \* history: clock advances in a row with data buffered and nothing written
    h_pc,                    \* position of tts_handler
    h_job,                   \* number of the job tts_handler is handling
    store_in_supabase,       \* tts_handler: store_in_supabase
    temp_exists,             \* os.path.exists(temp_output_path)
    supabase_client_instance,\* the module global: "None", "created" or "initialized"
    s_client,                \* tts_handler: s_client, same values
    response_payload,        \* tts_handler: response_payload: the keys set so far
    h_response,              \* the dict tts_handler returned
    h_events                 \* history: what failed while the job was handled

vars == <<HIGH_END_GPU, output_file, decode_fn, tokens, batch, batch_i, atg_pc,
          buffer, count, first_chunk_processed, buffer_to_proc, audio_samples,
          calls, yielded, prod_pc, caught, producer_started_event,
          producer_done_event, audio_queue, enqueued, cons_pc, audio_segments,
          write_buffer, sink, join_warned, api_pc, api_result, out_exists,
          out_size, prompt, use_batching, max_batch_chars, sentences, batches,
          batch_no, batch_temp_files, all_audio_segments, pipeline_runs,
          split_calls, stitch_calls, input_files, unreadable, st_pc, st_i,
          final_audio, final_src, first_params, st_out, boundaries,
          retry_count, tok_pc, requests, waits, pending, tok_yielded,
          monitors, perf_monitor, req_pc, req_runs, req_run, run_events,
          touched, now, last_check_time, polled, at_tick, stale, h_pc, h_job,
          store_in_supabase, temp_exists, supabase_client_instance, s_client,
          response_payload, h_response, h_events>>

genVars  == <<tokens, batch, batch_i, atg_pc>>
decVars  == <<buffer, count, first_chunk_processed, buffer_to_proc,
              audio_samples, calls, yielded>>
apiVars  == <<api_pc, api_result, out_exists, out_size>>
\* what neither tokens_decoder nor tokens_decoder_sync writes
batchVars == <<prompt, use_batching, max_batch_chars, sentences, batches,
               batch_no, batch_temp_files, all_audio_segments>>
apiHist  == <<pipeline_runs, split_calls, stitch_calls>>
stitchVars == <<input_files, unreadable, st_pc, st_i, final_audio, final_src,
                first_params, st_out, boundaries>>
\* state of the functions generate_speech_from_api does not step through
tokVars  == <<retry_count, tok_pc, requests, waits, pending, tok_yielded>>
perfVars == <<monitors, perf_monitor, req_pc, req_runs, req_run, run_events,
              touched>>
clockVars == <<now, last_check_time, polled, at_tick, stale>>
handlerVars == <<h_pc, h_job, store_in_supabase, temp_exists,
                 supabase_client_instance, s_client, response_payload,
                 h_response, h_events>>
moreVars == <<clockVars, handlerVars>>
auxVars  == <<stitchVars, tokVars, perfVars, moreVars>>
envVars  == <<HIGH_END_GPU, output_file, decode_fn, apiVars, batchVars, apiHist,
              auxVars>>
consVars == <<cons_pc, audio_segments, write_buffer, sink, join_warned>>

-----------------------------------------------------------------------------
(* Bounds of the model *)

\* longest token stream a generator produces
MaxTokens == 42
\* noise tokens (None or <= 0) occur among the first NoiseWindow tokens
NoiseWindow == 8
\* in a pipeline run, noise tokens occur among the first PipeNoiseWindow tokens
PipeNoiseWindow == 1
\* noise tokens plus null/empty decode results in one pipeline run
MaxFaults == 1
\* noise tokens in one run of tokens_decoder alone
MaxNoise == 1
\* null/empty decode results in one run of tokens_decoder alone
MaxNull == 1
\* capacity of audio_queue, scaled down from 50
QueueDefault == 2
\* capacity of audio_queue on a high-end GPU, scaled down from 100
QueueHigh == 3
\* buffer_max_size in bytes, scaled down from 1024 * 1024
BufferMax == 3

-----------------------------------------------------------------------------
(* Program constants *)

min_frames_first == 7
min_frames_subsequent == 28
process_every == 7

queue_size == IF HIGH_END_GPU THEN QueueHigh ELSE QueueDefault
batch_size == IF HIGH_END_GPU THEN 32 ELSE 16
buffer_max_size == BufferMax

-----------------------------------------------------------------------------
(* Python values *)

NoneValue == [none |-> TRUE, bytes |-> <<>>]
Some(b) == [none |-> FALSE, bytes |-> b]
IsNone(v) == v.none
\* truth value of an Optional[bytes]: "if audio_chunk:"
Truthy(v) == ~v.none /\ Len(v.bytes) > 0

NoToken == [none |-> TRUE, id |-> 0]
Tok(n) == [none |-> FALSE, id |-> n]

\* s[-n:]
LastN(s, n) == SubSeq(s, IF Len(s) > n THEN Len(s) - n + 1 ELSE 1, Len(s))

IsPrefix(s, t) == Len(s) <= Len(t) /\ SubSeq(t, 1, Len(s)) = s

\* the byte string a successful decode of the frame at total count c returns
FixedBytes == <<0>>
TaggedBytes(c) == <<c>>

-----------------------------------------------------------------------------
(* The token generator and the decode collaborator (inputs) *)

\* mutant: an id of 0 is accepted
IsAccepted_nonneg(t) == ~t.none /\ t.id >= 0

IsAccepted(t) == ~t.none /\ t.id > 0

NoiseUsed == Cardinality({i \in 1..Len(tokens) : ~IsAccepted(tokens[i])})
NullUsed == Cardinality({i \in 1..Len(calls) : ~Truthy(calls[i].res)})

PipeNoiseOK == NoiseUsed + NullUsed < MaxFaults /\ Len(tokens) < PipeNoiseWindow
PipeNullOK == NoiseUsed + NullUsed < MaxFaults
DecNoiseOK == NoiseUsed < MaxNoise /\ Len(tokens) < NoiseWindow
DecNullOK == NullUsed < MaxNull

\* what the generator may yield next: the token at stream position p decodes
\* to the id p, or it is noise (no id, or an id <= 0)
TokenChoices(noiseOK) ==
    {Tok(Len(tokens) + 1)} \cup (IF noiseOK THEN {NoToken, Tok(0)} ELSE {})

\* what convert_to_audio may return for the frame at the current count
DecodeResults(nullOK) ==
    IF decode_fn = "fixed"
    THEN {Some(FixedBytes)}
    ELSE {Some(TaggedBytes(count))}
         \cup (IF nullOK THEN {NoneValue, Some(<<>>)} ELSE {})

-----------------------------------------------------------------------------
(* tokens_decoder *)

\* mutants of the framer policy (used to test the claims' formulas)
FrameFirst_head(buf) == SubSeq(buf, 1, IF Len(buf) > 7 THEN 7 ELSE Len(buf))
FrameReadySubsequent_nomin(c) == c % 7 = 0
FrameReadySubsequent_every(c) == c >= 28
PhaseAfter_truthy(fcp, r) == IF ~fcp /\ ~r.none /\ Len(r.bytes) > 0 THEN TRUE ELSE fcp

FrameReadyFirst_early(c) == c >= 1
FrameReadyFirst(c) == c >= min_frames_first
FrameFirst(buf) == LastN(buf, min_frames_first)
FrameReadySubsequent(c) == c % process_every = 0 /\ c >= min_frames_subsequent
FrameSubsequent(buf) == LastN(buf, min_frames_subsequent)

\* first_chunk_processed after convert_to_audio returned r
PhaseAfter(fcp, r) == IF ~fcp /\ ~IsNone(r) THEN TRUE ELSE fcp

\* tokens_decoder yields r
IsYielded(r) == ~IsNone(r)

\* the body of "async for token_text in token_gen", up to the decode call
ProcessToken(t) ==
    IF IsAccepted(t)
    THEN /\ buffer' = Append(buffer, t.id)
         /\ count' = count + 1
         /\ IF ~first_chunk_processed
            THEN IF FrameReadyFirst(count')
                 THEN buffer_to_proc' = FrameFirst(buffer') /\ prod_pc' = "decode"
                 ELSE UNCHANGED buffer_to_proc /\ prod_pc' = "next"
            ELSE IF FrameReadySubsequent(count')
                 THEN buffer_to_proc' = FrameSubsequent(buffer') /\ prod_pc' = "decode"
                 ELSE UNCHANGED buffer_to_proc /\ prod_pc' = "next"
    ELSE UNCHANGED <<buffer, count, buffer_to_proc>> /\ prod_pc' = "next"

\* audio_samples = convert_to_audio(buffer_to_proc, count), and the yield
Decode(nullOK, onRaise) ==
    /\ prod_pc = "decode"
    /\ \/ \E r \in DecodeResults(nullOK) :
             /\ audio_samples' = r
             /\ calls' = Append(calls, [count |-> count, res |-> r])
             /\ first_chunk_processed' = PhaseAfter(first_chunk_processed, r)
             /\ IF IsYielded(r)
                THEN yielded' = Append(yielded, r) /\ prod_pc' = "yield"
                ELSE UNCHANGED yielded /\ prod_pc' = "next"
             /\ UNCHANGED caught
       \/ /\ decode_fn = "tagged"
          /\ caught' = "decode"
          /\ prod_pc' = onRaise
          /\ UNCHANGED <<audio_samples, calls, first_chunk_processed, yielded>>
    /\ UNCHANGED <<buffer, count, buffer_to_proc>>

-----------------------------------------------------------------------------
(* tokens_decoder driven directly: async for chunk in tokens_decoder(gen) *)

HarnessPull ==
    /\ prod_pc = "next"
    /\ \/ /\ Len(tokens) < MaxTokens
          /\ \E t \in TokenChoices(DecNoiseOK) :
                /\ tokens' = Append(tokens, t)
                /\ ProcessToken(t)
          /\ UNCHANGED caught
       \/ /\ prod_pc' = "dec_done"
          /\ UNCHANGED <<tokens, buffer, count, buffer_to_proc, caught>>
       \/ /\ prod_pc' = "dec_raised"
          /\ caught' = "token_gen"
          /\ UNCHANGED <<tokens, buffer, count, buffer_to_proc>>
    /\ UNCHANGED <<batch, batch_i, atg_pc, first_chunk_processed, audio_samples,
                   calls, yielded>>
    /\ UNCHANGED <<envVars, consVars, producer_started_event,
                   producer_done_event, audio_queue, enqueued>>

HarnessDecode ==
    /\ Decode(DecNullOK, "dec_raised")
    /\ UNCHANGED <<envVars, genVars, consVars, producer_started_event,
                   producer_done_event, audio_queue, enqueued>>

HarnessCollect ==
    /\ prod_pc = "yield"
    /\ prod_pc' = "next"
    /\ UNCHANGED <<envVars, genVars, decVars, consVars, caught,
                   producer_started_event, producer_done_event, audio_queue,
                   enqueued>>

InitCommon ==
    /\ decode_fn \in {"fixed", "tagged"}
    /\ tokens = <<>>
    /\ batch = <<>>
    /\ batch_i = 1
    /\ atg_pc = "fill"
    /\ buffer = <<>>
    /\ count = 0
    /\ first_chunk_processed = FALSE
    /\ buffer_to_proc = <<>>
    /\ audio_samples = NoneValue
    /\ calls = <<>>
    /\ yielded = <<>>
    /\ caught = "none"
    /\ producer_started_event = FALSE
    /\ producer_done_event = FALSE
    /\ audio_queue = <<>>
    /\ enqueued = <<>>
    /\ cons_pc = "init"
    /\ audio_segments = <<>>
    /\ write_buffer = <<>>
    /\ sink = <<>>
    /\ join_warned = FALSE

\* the (success, message) pair: message is an Optional[str]
NoMessage == [none |-> TRUE, text |-> ""]
Message(t) == [none |-> FALSE, text |-> t]
Succeeded == [success |-> TRUE, message |-> NoMessage]
Failed(t) == [success |-> FALSE, message |-> Message(t)]
NoResult == [success |-> FALSE, message |-> NoMessage]

\* an absent file
NoFile == [none |-> TRUE, params |-> "", samples |-> <<>>, extra |-> FALSE]

\* stitch_wav_files is not running
InitStitchIdle ==
    /\ input_files = <<>>
    /\ unreadable = 0
    /\ st_pc = "idle"
    /\ st_i = 0
    /\ final_audio = <<>>
    /\ final_src = <<>>
    /\ first_params = ""
    /\ st_out = NoFile
    /\ boundaries = <<>>

\* generate_tokens_from_api is not running
InitTokensIdle ==
    /\ retry_count = 0
    /\ tok_pc = "idle"
    /\ requests = <<>>
    /\ waits = <<>>
    /\ pending = <<>>
    /\ tok_yielded = <<>>

\* PerformanceMonitor(): the counters start at zero
NewMonitor == [token_count |-> 0, audio_chunks |-> 0]

\* the module was imported ("perf_monitor = PerformanceMonitor()"), no
\* call of generate_speech_from_api is modelled
InitPerfIdle ==
    /\ monitors = <<NewMonitor>>
    /\ perf_monitor = 1
    /\ req_pc = <<>>
    /\ req_runs = <<>>
    /\ req_run = <<>>
    /\ run_events = <<>>
    /\ touched = <<{}>>

\* the clock is not modelled: elapsed time is an arbitrary choice
InitClockIdle ==
    /\ now = 0
    /\ last_check_time = 0
    /\ polled = FALSE
    /\ at_tick = [sink |-> 0, segments |-> 0]
    /\ stale = 0

\* a dict: its keys, and the values of "status" and "storage_type"
Dict(keys, status, storage_type) ==
    [keys |-> keys, status |-> status, storage_type |-> storage_type]
NoDict == Dict({}, "none", "none")

\* handler.py was imported, no job is being handled
InitHandlerIdle ==
    /\ h_pc = "idle"
    /\ h_job = 0
    /\ store_in_supabase = FALSE
    /\ temp_exists = FALSE
    /\ supabase_client_instance = "None"
    /\ s_client = "None"
    /\ response_payload = NoDict
    /\ h_response = NoDict
    /\ h_events = {}

InitMoreIdle == InitClockIdle /\ InitHandlerIdle

InitAuxIdle == InitStitchIdle /\ InitTokensIdle /\ InitPerfIdle /\ InitMoreIdle

\* locals of the batched path before they are assigned
InitBatchLocals ==
    /\ sentences = <<>>
    /\ batches = <<>>
    /\ batch_no = 0
    /\ batch_temp_files = <<>>
    /\ all_audio_segments = <<>>
    /\ pipeline_runs = <<>>
    /\ split_calls = 0
    /\ stitch_calls = 0

InitApiIdle ==
    /\ api_pc = "idle"
    /\ api_result = NoResult
    /\ out_exists = FALSE
    /\ out_size = 0
    /\ prompt = <<>>
    /\ use_batching = FALSE
    /\ max_batch_chars = 0
    /\ InitBatchLocals

InitDecoder ==
    /\ InitCommon
    /\ InitApiIdle
    /\ InitAuxIdle
    /\ HIGH_END_GPU = FALSE
    /\ output_file = FALSE
    /\ prod_pc = "next"

NextDecoder == HarnessPull \/ HarnessDecode \/ HarnessCollect

SpecDecoder == InitDecoder /\ [][NextDecoder]_vars

-----------------------------------------------------------------------------
(* tokens_decoder_sync: the producer thread (async_token_gen, async_producer) *)

restProd == <<envVars, consVars>>

ProducerStart ==
    /\ prod_pc = "start"
    /\ producer_started_event' = TRUE
    /\ prod_pc' = "next"
    /\ UNCHANGED <<genVars, decVars, caught, producer_done_event, audio_queue,
                   enqueued, restProd>>

\* mutant: an exception leaves async_producer without its finally block
OnException_skip == "terminated"

\* where control goes when the token sequence or the decode call raises:
\* "except Exception" logs, then the finally block runs
OnException == "set_done"
\* where control goes when tokens_decoder is exhausted: the finally block
OnExhausted == "set_done"

\* async_token_gen pulls one token of syn_token_gen into the batch
FillBatch ==
    /\ prod_pc = "next"
    /\ atg_pc = "fill"
    /\ \/ /\ Len(tokens) < MaxTokens
          /\ \E t \in TokenChoices(PipeNoiseOK) :
                /\ tokens' = Append(tokens, t)
                /\ batch' = Append(batch, t)
          /\ atg_pc' = IF Len(batch') >= batch_size THEN "drain" ELSE "fill"
          /\ batch_i' = 1
          /\ UNCHANGED <<prod_pc, caught>>
       \/ /\ atg_pc' = "final"
          /\ batch_i' = 1
          /\ UNCHANGED <<tokens, batch, prod_pc, caught>>
       \/ /\ caught' = "token_gen"
          /\ prod_pc' = OnException
          /\ UNCHANGED <<tokens, batch, batch_i, atg_pc>>
    /\ UNCHANGED <<decVars, producer_started_event, producer_done_event,
                   audio_queue, enqueued, restProd>>

\* "for t in batch: yield t", and tokens_decoder's handling of t
DeliverToken ==
    /\ prod_pc = "next"
    /\ atg_pc \in {"drain", "final"}
    /\ batch_i <= Len(batch)
    /\ ProcessToken(batch[batch_i])
    /\ batch_i' = batch_i + 1
    /\ UNCHANGED <<tokens, batch, atg_pc, first_chunk_processed, audio_samples,
                   calls, yielded, caught, producer_started_event,
                   producer_done_event, audio_queue, enqueued, restProd>>

\* "batch = []" after a full batch was yielded
BatchDrained ==
    /\ prod_pc = "next"
    /\ atg_pc = "drain"
    /\ batch_i > Len(batch)
    /\ batch' = <<>>
    /\ batch_i' = 1
    /\ atg_pc' = "fill"
    /\ UNCHANGED <<tokens, decVars, prod_pc, caught, producer_started_event,
                   producer_done_event, audio_queue, enqueued, restProd>>

\* async_token_gen ends, so tokens_decoder ends, so the async for ends
GenExhausted ==
    /\ prod_pc = "next"
    /\ atg_pc = "final"
    /\ batch_i > Len(batch)
    /\ prod_pc' = OnExhausted
    /\ UNCHANGED <<genVars, decVars, caught, producer_started_event,
                   producer_done_event, audio_queue, enqueued, restProd>>

ProducerDecode ==
    /\ Decode(PipeNullOK, OnException)
    /\ UNCHANGED <<genVars, producer_started_event, producer_done_event,
                   audio_queue, enqueued, restProd>>

\* mutant: every yielded chunk is enqueued
ShouldEnqueue_any(chunk) == ~chunk.none

\* "if audio_chunk:"
ShouldEnqueue(chunk) == Truthy(chunk)

ProducerChunk ==
    /\ prod_pc = "yield"
    /\ prod_pc' = IF ShouldEnqueue(audio_samples) THEN "put" ELSE "next"
    /\ UNCHANGED <<genVars, decVars, caught, producer_started_event,
                   producer_done_event, audio_queue, enqueued, restProd>>

\* mutant: an unbounded queue
PutEnabled_always(q) == TRUE

\* queue.Queue(maxsize=queue_size).put blocks while the queue is full
PutEnabled(q) == Len(q) < queue_size

\* audio_queue.put(audio_chunk)
ProducerPut ==
    /\ prod_pc = "put"
    /\ PutEnabled(audio_queue)
    /\ audio_queue' = Append(audio_queue, audio_samples)
    /\ enqueued' = Append(enqueued, audio_samples)
    /\ prod_pc' = "next"
    /\ UNCHANGED <<genVars, decVars, caught, producer_started_event,
                   producer_done_event, restProd>>

\* finally: producer_done_event.set()
ProducerSetDone ==
    /\ prod_pc = "set_done"
    /\ producer_done_event' = TRUE
    /\ prod_pc' = "put_sentinel"
    /\ UNCHANGED <<genVars, decVars, caught, producer_started_event,
                   audio_queue, enqueued, restProd>>

\* finally: audio_queue.put(None)
ProducerPutSentinel ==
    /\ prod_pc = "put_sentinel"
    /\ PutEnabled(audio_queue)
    /\ audio_queue' = Append(audio_queue, NoneValue)
    /\ enqueued' = Append(enqueued, NoneValue)
    /\ prod_pc' = "terminated"
    /\ UNCHANGED <<genVars, decVars, caught, producer_started_event,
                   producer_done_event, restProd>>

Producer ==
    \/ ProducerStart
    \/ FillBatch
    \/ DeliverToken
    \/ BatchDrained
    \/ GenExhausted
    \/ ProducerDecode
    \/ ProducerChunk
    \/ ProducerPut
    \/ ProducerSetDone
    \/ ProducerPutSentinel

-----------------------------------------------------------------------------
(* tokens_decoder_sync: the consumer loop, run by the calling thread *)

prodVars == <<genVars, decVars, prod_pc, caught, producer_started_event,
              producer_done_event, enqueued>>

\* mutant: segments stored newest first
StoreSegment_front(segs, audio) == <<audio>> \o segs

\* audio_segments.append(audio)
StoreSegment(segs, audio) == Append(segs, audio)

\* mutant: the queue hands out its newest item
QueueFront_newest(q) == q[Len(q)]

\* the item audio_queue.get returns
QueueFront(q) == Head(q)

\* write_buffer and sink after a segment was received
BufferAfter(wb, audio) == IF output_file THEN wb \o audio.bytes ELSE wb
FlushNow(wb) == output_file /\ Len(wb) >= buffer_max_size
FlushPending(wb) == output_file /\ Len(wb) > 0

\* thread.start(); producer_started_event.wait(timeout=5.0): returns once
\* the event is set, or after the timeout whether it is set or not
ConsumerBegin ==
    /\ cons_pc = "init"
    /\ cons_pc' = "get"
    /\ UNCHANGED <<envVars, prodVars, audio_queue, audio_segments,
                   write_buffer, sink, join_warned>>

\* audio_queue.get(timeout=0.1) returns an item
ConsumerGet ==
    /\ cons_pc = "get"
    /\ audio_queue /= <<>>
    /\ audio_queue' = Tail(audio_queue)
    /\ LET audio == QueueFront(audio_queue) IN
       IF IsNone(audio)
       THEN /\ cons_pc' = "join"
            /\ UNCHANGED <<audio_segments, write_buffer, sink>>
       ELSE /\ audio_segments' = StoreSegment(audio_segments, audio)
            /\ LET wb == BufferAfter(write_buffer, audio) IN
               IF FlushNow(wb)
               THEN sink' = sink \o wb /\ write_buffer' = <<>>
               ELSE write_buffer' = wb /\ UNCHANGED sink
            /\ cons_pc' = "get"
    /\ UNCHANGED <<envVars, prodVars, join_warned>>

\* mutant: a get that blocks until an item arrives
GetTimesOut_never == FALSE

\* audio_queue.get is called with timeout=0.1
GetTimesOut == TRUE

\* audio_queue.get(timeout=0.1) raises queue.Empty; elapsed is
\* "current_time - last_check_time > check_interval"
TimeoutStep(elapsed) ==
    /\ cons_pc = "get"
    /\ audio_queue = <<>>
    /\ GetTimesOut
    /\ cons_pc' = IF elapsed THEN "is_set" ELSE "get"
    /\ UNCHANGED <<prodVars, audio_queue, audio_segments, write_buffer, sink,
                   join_warned>>

\* the timed-out get when the clock is not modelled
ConsumerTimeout ==
    /\ \E elapsed \in BOOLEAN : TimeoutStep(elapsed)
    /\ UNCHANGED envVars

\* the periodic flush at the end of the except branch
PeriodicFlush ==
    IF FlushPending(write_buffer)
    THEN sink' = sink \o write_buffer /\ write_buffer' = <<>>
    ELSE UNCHANGED <<sink, write_buffer>>

\* mutant: the consumer looks at the started flag
DoneSeen_started == producer_started_event

\* the flag the completion check reads
DoneSeen == producer_done_event

\* producer_done_event.is_set()
ConsumerCheckDone ==
    /\ cons_pc = "is_set"
    /\ IF DoneSeen
       THEN cons_pc' = "empty" /\ UNCHANGED <<sink, write_buffer>>
       ELSE cons_pc' = "get" /\ PeriodicFlush
    /\ UNCHANGED <<envVars, prodVars, audio_queue, audio_segments, join_warned>>

\* mutant: the done flag alone ends consumption
FinishOnEmpty_always(q) == TRUE

\* the consumer may finish on the empty-queue check
FinishOnEmpty(q) == q = <<>>

\* ... and audio_queue.empty()
ConsumerCheckEmpty ==
    /\ cons_pc = "empty"
    /\ IF FinishOnEmpty(audio_queue)
       THEN cons_pc' = "join" /\ UNCHANGED <<sink, write_buffer>>
       ELSE cons_pc' = "get" /\ PeriodicFlush
    /\ UNCHANGED <<envVars, prodVars, audio_queue, audio_segments, join_warned>>

\* if thread.is_alive(): thread.join(timeout=10.0), and the warning
ConsumerJoin ==
    /\ cons_pc = "join"
    /\ \/ /\ prod_pc = "terminated"
          /\ UNCHANGED join_warned
       \/ /\ prod_pc /= "terminated"
          /\ join_warned' = TRUE
    /\ cons_pc' = "final"
    /\ UNCHANGED <<envVars, prodVars, audio_queue, audio_segments,
                   write_buffer, sink>>

\* mutant: no flush after the loop
FinalFlushNeeded_never(wb) == FALSE

\* "if wav_file and len(write_buffer) > 0" after the loop
FinalFlushNeeded(wb) == output_file /\ Len(wb) > 0

\* the final flush (write_buffer is not reset), wav_file.close(),
\* return audio_segments
ConsumerFinish ==
    /\ cons_pc = "final"
    /\ IF FinalFlushNeeded(write_buffer)
       THEN sink' = sink \o write_buffer
       ELSE UNCHANGED sink
    /\ cons_pc' = "returned"
    /\ UNCHANGED <<envVars, prodVars, audio_queue, audio_segments, write_buffer,
                   join_warned>>

Consumer ==
    \/ ConsumerBegin
    \/ ConsumerGet
    \/ ConsumerTimeout
    \/ ConsumerCheckDone
    \/ ConsumerCheckEmpty
    \/ ConsumerJoin
    \/ ConsumerFinish

-----------------------------------------------------------------------------
(* tokens_decoder_sync: the consumer loop against a clock *)

\* how far the clock runs
MaxTime == 4
\* segments the producer yields in one run
MaxArrivals == 3

check_interval == 1

\* everything the clocked steps leave alone
clockRest == <<HIGH_END_GPU, output_file, decode_fn, apiVars, batchVars, apiHist,
               stitchVars, tokVars, perfVars, handlerVars>>

\* the timed-out get: "current_time = time.time()", the interval test and
\* "last_check_time = current_time"
ConsumerTimeoutClock ==
    LET elapsed == now - last_check_time > check_interval IN
    /\ TimeoutStep(elapsed)
    /\ last_check_time' = IF elapsed THEN now ELSE last_check_time
    /\ polled' = TRUE
    /\ UNCHANGED <<now, at_tick, stale, clockRest>>

\* one check_interval passes. The consumer is in get and has been through
\* its loop since the clock last advanced: a get, timed out or not, takes
\* far less than check_interval
Tick ==
    /\ now < MaxTime
    /\ cons_pc = "get"
    /\ polled \/ Len(audio_segments) > at_tick.segments
    /\ now' = now + 1
    /\ polled' = FALSE
    /\ at_tick' = [sink |-> Len(sink), segments |-> Len(audio_segments)]
    /\ stale' = IF FlushPending(write_buffer) /\ Len(sink) = at_tick.sink
                THEN stale + 1
                ELSE 0
    /\ UNCHANGED <<last_check_time, clockRest, prodVars, audio_queue, consVars>>

\* tokens_decoder yields the next non-empty chunk to the "async for" of
\* async_producer (the token loop is not stepped through)
SegmentReady ==
    /\ prod_pc = "next"
    /\ Len(enqueued) < MaxArrivals
    /\ audio_samples' = Some(TaggedBytes(Len(enqueued) + 1))
    /\ prod_pc' = "put"
    /\ UNCHANGED <<genVars, buffer, count, first_chunk_processed, buffer_to_proc,
                   calls, yielded, caught, producer_started_event,
                   producer_done_event, audio_queue, enqueued, restProd>>

\* tokens_decoder is exhausted
StreamEnds ==
    /\ prod_pc = "next"
    /\ prod_pc' = OnExhausted
    /\ UNCHANGED <<genVars, decVars, caught, producer_started_event,
                   producer_done_event, audio_queue, enqueued, restProd>>

InitFlush ==
    /\ InitCommon
    /\ decode_fn = "tagged"
    /\ HIGH_END_GPU = FALSE
    /\ output_file = TRUE
    /\ prod_pc = "start"
    /\ InitApiIdle
    /\ InitAuxIdle

NextFlush ==
    \/ ProducerStart
    \/ SegmentReady
    \/ StreamEnds
    \/ ProducerPut
    \/ ProducerSetDone
    \/ ProducerPutSentinel
    \/ ConsumerBegin
    \/ ConsumerGet
    \/ ConsumerTimeoutClock
    \/ ConsumerCheckDone
    \/ ConsumerCheckEmpty
    \/ ConsumerJoin
    \/ ConsumerFinish
    \/ Tick

SpecFlush == InitFlush /\ [][NextFlush]_vars

-----------------------------------------------------------------------------
(* generate_speech_from_api: the checks after the pipeline *)

\* size of the header the wave module writes
WAV_HEADER_SIZE == 44

\* mutant: a file of exactly the header size passes
HeaderOnly_below(size) == size < WAV_HEADER_SIZE

\* "os.path.getsize(output_file) <= 44"
HeaderOnly(size) == size <= WAV_HEADER_SIZE

\* no segment was generated (the else branch of "if all_audio_segments")
NoAudioOutcome(has_out, exists, size) ==
    IF has_out /\ exists /\ HeaderOnly(size)
    THEN Failed("file_no_audio_data")
    ELSE Failed("no_audio_segments")

\* some segment was generated: the checks of the output file
AudioOutcome(has_out, exists, size) ==
    IF has_out
    THEN IF ~exists
         THEN Failed("file_not_created")
         ELSE IF HeaderOnly(size)
              THEN Failed("file_empty_or_header_only")
              ELSE Succeeded
    ELSE Succeeded

\* mutant: the segment list is not looked at
ApiOutcome_lenient(segs, has_out, exists, size) == AudioOutcome(has_out, exists, size)

ApiOutcome(segs, has_out, exists, size) ==
    IF segs = <<>>
    THEN NoAudioOutcome(has_out, exists, size)
    ELSE AudioOutcome(has_out, exists, size)

\* the non-batched path after tokens_decoder_sync returned: the output file
\* holds the header and the frames written, unless it was removed meanwhile
ApiReturn ==
    /\ api_pc = "pipeline"
    /\ cons_pc = "returned"
    /\ out_exists' \in (IF output_file THEN BOOLEAN ELSE {FALSE})
    /\ out_size' = IF out_exists' THEN WAV_HEADER_SIZE + Len(sink) ELSE 0
    /\ api_result' = ApiOutcome(audio_segments, output_file, out_exists', out_size')
    /\ api_pc' = "done"
    /\ UNCHANGED <<auxVars, HIGH_END_GPU, output_file, decode_fn, prodVars, audio_queue,
                   consVars, batchVars>>
    /\ UNCHANGED apiHist

Init ==
    /\ InitCommon
    /\ decode_fn = "tagged"
    /\ HIGH_END_GPU \in BOOLEAN
    /\ output_file \in BOOLEAN
    /\ prod_pc = "start"
    /\ api_pc = "pipeline"
    /\ api_result = NoResult
    /\ out_exists = FALSE
    /\ out_size = 0
    /\ prompt = <<>>
    /\ use_batching = FALSE
    /\ max_batch_chars = 0
    /\ InitBatchLocals
    /\ InitAuxIdle

Next == Producer \/ Consumer \/ ApiReturn

\* both threads keep being scheduled, and time passes
Fairness == WF_vars(Producer) /\ WF_vars(Consumer)

\* a call without an output file: termination does not depend on the sink
InitLive == Init /\ ~output_file

SpecLive == InitLive /\ [][Next]_vars /\ Fairness

Spec == Init /\ [][Next]_vars

-----------------------------------------------------------------------------
(* split_text_into_sentences and the grouping loop of generate_speech_from_api.
   A text is a sequence of one-character strings. *)

\* most pieces a text of the batcher is built from
MaxPieces == 3

Rep(c, n) == [i \in 1..n |-> c]

\* the pieces input texts are built from
Pieces ==
    { Rep("a", 19) \o <<".", " ">>,      \* a sentence of 20 characters
      Rep("b", 24) \o <<"!", "\n">>,     \* a sentence of 25 characters
      <<"c", "c", "?", "\t">>,           \* a short sentence
      <<"d", ".", ".", " ">>,            \* an ellipsis
      <<"e", ".", " ">>,                 \* an initial
      <<"f", "f">> }                     \* text without a terminator

RECURSIVE Flatten(_)
Flatten(ss) == IF ss = <<>> THEN <<>> ELSE Head(ss) \o Flatten(Tail(ss))

TextsOf(n) == { Flatten(ps) : ps \in UNION { [1..k -> Pieces] : k \in 1..n } }

\* the values of max_batch_chars tried
BatchCharsChoices == {22, 25, 45, 70}

IsSpace(c) == c \in {" ", "\n", "\t"}
IsSentenceEnd(c) == c \in {".", "!", "?"}

RECURSIVE LStrip(_)
LStrip(s) == IF s /= <<>> /\ IsSpace(Head(s)) THEN LStrip(Tail(s)) ELSE s

RECURSIVE RStrip(_)
RStrip(s) ==
    IF s /= <<>> /\ IsSpace(s[Len(s)]) THEN RStrip(SubSeq(s, 1, Len(s) - 1)) ELSE s

\* str.strip()
Strip(s) == LStrip(RStrip(s))

\* mutant: no minimum length of current_sentence
IsBoundary_anylength(cur) ==
    /\ IsSpace(cur[Len(cur)])
    /\ Len(cur) > 1
    /\ IsSentenceEnd(cur[Len(cur) - 1])
    /\ Len(cur) > 2 => cur[Len(cur) - 2] \notin {".", " "}

\* current_sentence, just extended by one character, ends a sentence
IsBoundary(cur) ==
    /\ IsSpace(cur[Len(cur)])
    /\ Len(cur) > 1
    /\ IsSentenceEnd(cur[Len(cur) - 1])
    /\ Len(cur) > 3
    /\ cur[Len(cur) - 2] \notin {".", " "}

\* the prefixes of text at which current_sentence, grown from empty one
\* character at a time, ends a sentence
BoundaryAt(text) == { k \in 1..Len(text) : IsBoundary(SubSeq(text, 1, k)) }

\* the first of them, 0 when there is none
FirstBoundary(text) ==
    IF BoundaryAt(text) = {}
    THEN 0
    ELSE CHOOSE k \in BoundaryAt(text) : \A j \in BoundaryAt(text) : k <= j

\* the loop "for char in text", taken one sentence at a time: the characters up
\* to the first boundary are appended to parts and current_sentence restarts
\* empty; the result is current_sentence and parts when the text is used up
RECURSIVE SplitLoop(_, _)
SplitLoop(text, parts) ==
    LET k == FirstBoundary(text) IN
    IF k = 0
    THEN <<text, parts>>
    ELSE SplitLoop(SubSeq(text, k + 1, Len(text)), Append(parts, Strip(SubSeq(text, 1, k))))

\* mutant: the text after the last boundary is dropped
KeepsRemainder_never(current_sentence) == FALSE

\* "if current_sentence.strip()"
KeepsRemainder(current_sentence) == Strip(current_sentence) /= <<>>

SplitParts(text) ==
    LET r == SplitLoop(text, <<>>) IN
    IF KeepsRemainder(r[1]) THEN Append(r[2], Strip(r[1])) ELSE r[2]

min_chars == 20

\* mutant: no segment counts as short
IsShort_never(current) == FALSE

\* "len(current) < min_chars"
IsShort(current) == Len(current) < min_chars

\* the inner loop: a short segment takes up the following ones
RECURSIVE Absorb(_, _)
Absorb(current, rest) ==
    IF rest /= <<>> /\ IsShort(current)
    THEN Absorb(current \o <<" ">> \o Head(rest), Tail(rest))
    ELSE <<current, rest>>

\* the loop "while i < len(parts)"
RECURSIVE CombineShort(_)
CombineShort(parts) ==
    IF parts = <<>>
    THEN <<>>
    ELSE LET r == Absorb(Head(parts), Tail(parts)) IN <<r[1]>> \o CombineShort(r[2])

split_text_into_sentences(text) == CombineShort(SplitParts(text))

\* mutant: a unit longer than the limit stays in the current batch
StartsNewBatch_fitting(current_batch, sentence, max) ==
    Len(current_batch) + Len(sentence) > max /\ current_batch /= <<>> /\ Len(sentence) <= max

\* "if len(current_batch) + len(sentence) > max_batch_chars and current_batch"
StartsNewBatch(current_batch, sentence, max) ==
    Len(current_batch) + Len(sentence) > max /\ current_batch /= <<>>

\* mutant: units are joined without a space
ExtendBatch_nospace(current_batch, sentence) == current_batch \o sentence

\* the else branch: current_batch += " " (when non-empty); current_batch += sentence
ExtendBatch(current_batch, sentence) ==
    IF current_batch /= <<>>
    THEN current_batch \o <<" ">> \o sentence
    ELSE sentence

\* the loop "for sentence in sentences" and the append after it
RECURSIVE GroupLoop(_, _, _, _)
GroupLoop(units, current_batch, out, max) ==
    IF units = <<>>
    THEN IF current_batch /= <<>> THEN Append(out, current_batch) ELSE out
    ELSE IF StartsNewBatch(current_batch, Head(units), max)
         THEN GroupLoop(Tail(units), Head(units), Append(out, current_batch), max)
         ELSE GroupLoop(Tail(units), ExtendBatch(current_batch, Head(units)), out, max)

GroupSentences(units, max) == GroupLoop(units, <<>>, <<>>, max)

\* mutant: use_batching is not looked at
TakesDirectPath_length == Len(prompt) < max_batch_chars

\* "if not use_batching or len(prompt) < max_batch_chars"
TakesDirectPath == ~use_batching \/ Len(prompt) < max_batch_chars

ApiStart ==
    /\ api_pc = "start"
    /\ api_pc' = IF TakesDirectPath THEN "direct" ELSE "split"
    /\ UNCHANGED <<auxVars, HIGH_END_GPU, output_file, decode_fn, prodVars, audio_queue,
                   consVars, api_result, out_exists, out_size, batchVars>>
    /\ UNCHANGED apiHist

ApiSplit ==
    /\ api_pc = "split"
    /\ sentences' = split_text_into_sentences(prompt)
    /\ api_pc' = "group"
    /\ UNCHANGED <<auxVars, HIGH_END_GPU, output_file, decode_fn, prodVars, audio_queue,
                   consVars, api_result, out_exists, out_size, prompt,
                   use_batching, max_batch_chars, batches, batch_no,
                   batch_temp_files, all_audio_segments>>
    /\ split_calls' = split_calls + 1
    /\ UNCHANGED <<pipeline_runs, stitch_calls>>

ApiGroup ==
    /\ api_pc = "group"
    /\ batches' = GroupSentences(sentences, max_batch_chars)
    /\ batch_no' = 1
    /\ api_pc' = "batches"
    /\ UNCHANGED <<auxVars, HIGH_END_GPU, output_file, decode_fn, prodVars, audio_queue,
                   consVars, api_result, out_exists, out_size, prompt,
                   use_batching, max_batch_chars, sentences, batch_temp_files,
                   all_audio_segments>>
    /\ UNCHANGED apiHist

\* the state of the process when generate_speech_from_api is entered
InitApiCall ==
    /\ InitCommon
    /\ decode_fn = "tagged"
    /\ HIGH_END_GPU = FALSE
    /\ prod_pc = "start"
    /\ api_pc = "start"
    /\ api_result = NoResult
    /\ out_exists = FALSE
    /\ out_size = 0
    /\ max_batch_chars \in BatchCharsChoices
    /\ InitBatchLocals
    /\ InitAuxIdle

InitBatcher ==
    /\ InitApiCall
    /\ output_file = FALSE
    /\ use_batching = TRUE
    /\ prompt \in TextsOf(MaxPieces)

NextBatcher == ApiStart \/ ApiSplit \/ ApiGroup

SpecBatcher == InitBatcher /\ [][NextBatcher]_vars

-----------------------------------------------------------------------------
(* generate_speech_from_api as a whole; a run of tokens_decoder_sync and a
   call of stitch_wav_files are single steps with every outcome they have *)

\* most pieces a prompt of generate_speech_from_api is built from
ApiPieces == 2
\* most segments one run of tokens_decoder_sync returns
MaxSegs == 1

\* size of the WAV file tokens_decoder_sync leaves after n segments
WavSize(n) == WAV_HEADER_SIZE + n * Len(FixedBytes)

apiRest == <<auxVars, HIGH_END_GPU, output_file, decode_fn, prodVars, audio_queue, consVars,
             api_result, prompt, use_batching, max_batch_chars>>

\* a call tokens_decoder_sync(generate_tokens_from_api(prompt=text, ...),
\* output_file=target)
PipelineRun(text, target) == [text |-> text, target |-> target]

\* output_file=output_file
DirectTarget == IF output_file THEN "output_file" ELSE "none"

\* output_file=temp_batch_output_file
TempTarget == IF output_file THEN "temp_batch_output_file" ELSE "none"

\* the non-batched call of tokens_decoder_sync(..., output_file=output_file)
ApiDirect ==
    /\ api_pc = "direct"
    /\ \/ /\ api_pc' = "except"
          /\ UNCHANGED <<all_audio_segments, out_exists, out_size>>
       \/ \E n \in 0..MaxSegs :
             /\ all_audio_segments' = Rep(0, n)
             /\ out_exists' = output_file
             /\ out_size' = IF output_file THEN WavSize(n) ELSE 0
             /\ api_pc' = "check"
    /\ UNCHANGED <<apiRest, sentences, batches, batch_no, batch_temp_files>>
    /\ pipeline_runs' = Append(pipeline_runs, PipelineRun(prompt, DirectTarget))
    /\ UNCHANGED <<split_calls, stitch_calls>>

\* a temporary file of one batch
TempFile(exists, n) == [exists |-> exists, segments |-> n]

\* one pass of "for i, batch_text in enumerate(batches)"
ApiRunBatch ==
    /\ api_pc = "batches"
    /\ batch_no <= Len(batches)
    /\ \/ \E created \in BOOLEAN :
             /\ batch_temp_files' =
                   IF output_file
                   THEN Append(batch_temp_files, TempFile(created, 0))
                   ELSE batch_temp_files
             /\ api_pc' = "except"
             /\ UNCHANGED <<all_audio_segments, batch_no>>
       \/ \E n \in 0..MaxSegs :
             /\ batch_temp_files' =
                   IF output_file
                   THEN Append(batch_temp_files, TempFile(TRUE, n))
                   ELSE batch_temp_files
             /\ all_audio_segments' = all_audio_segments \o Rep(batch_no, n)
             /\ batch_no' = batch_no + 1
             /\ api_pc' = "batches"
    /\ UNCHANGED <<apiRest, sentences, batches, out_exists, out_size>>
    /\ pipeline_runs' = Append(pipeline_runs, PipelineRun(batches[batch_no], TempTarget))
    /\ UNCHANGED <<split_calls, stitch_calls>>

\* "if output_file and batch_temp_files"
NeedsStitch == output_file /\ batch_temp_files /= <<>>

ApiBatchesDone ==
    /\ api_pc = "batches"
    /\ batch_no > Len(batches)
    /\ api_pc' = IF NeedsStitch THEN "stitch" ELSE "check"
    /\ UNCHANGED <<apiRest, sentences, batches, batch_no, batch_temp_files,
                   all_audio_segments, out_exists, out_size>>
    /\ UNCHANGED apiHist

\* segments of the files that could be read (at this scale every file is
\* shorter than the crossfade window, so files are concatenated)
RECURSIVE StitchedSegments(_, _)
StitchedSegments(files, readable) ==
    IF files = <<>>
    THEN 0
    ELSE (IF readable[1] THEN Head(files).segments ELSE 0)
         + StitchedSegments(Tail(files), Tail(readable))

\* stitch_wav_files raises when the first file cannot be read or the output
\* cannot be written
StitchRaises(readable, writable) == ~readable[1] \/ ~writable

\* stitch_wav_files(batch_temp_files, output_file)
ApiStitch ==
    /\ api_pc = "stitch"
    /\ \E flags \in [1..Len(batch_temp_files) -> BOOLEAN], writable \in BOOLEAN :
          LET readable == [i \in 1..Len(batch_temp_files) |->
                              flags[i] /\ batch_temp_files[i].exists] IN
          IF StitchRaises(readable, writable)
          THEN /\ api_pc' = "except"
               /\ UNCHANGED <<out_exists, out_size>>
          ELSE /\ out_exists' = TRUE
               /\ out_size' = WavSize(StitchedSegments(batch_temp_files, readable))
               /\ api_pc' = "remove"
    /\ UNCHANGED <<apiRest, sentences, batches, batch_no, batch_temp_files,
                   all_audio_segments>>
    /\ stitch_calls' = stitch_calls + 1
    /\ UNCHANGED <<pipeline_runs, split_calls>>

\* the loop of os.remove(temp_file); a failure is printed and ignored
ApiRemoveTemp ==
    /\ api_pc = "remove"
    /\ \E failed \in SUBSET (1..Len(batch_temp_files)) :
          batch_temp_files' =
             [i \in 1..Len(batch_temp_files) |->
                 TempFile(batch_temp_files[i].exists /\ i \in failed,
                          batch_temp_files[i].segments)]
    /\ api_pc' = "check"
    /\ UNCHANGED <<apiRest, sentences, batches, batch_no, all_audio_segments,
                   out_exists, out_size>>
    /\ UNCHANGED apiHist

\* the checks after either path; the file may have been removed meanwhile
ApiCheck ==
    /\ api_pc = "check"
    /\ out_exists' \in (IF out_exists THEN BOOLEAN ELSE {FALSE})
    /\ out_size' = IF out_exists' THEN out_size ELSE 0
    /\ api_result' = ApiOutcome(all_audio_segments, output_file, out_exists', out_size')
    /\ api_pc' = "done"
    /\ UNCHANGED <<auxVars, HIGH_END_GPU, output_file, decode_fn, prodVars, audio_queue,
                   consVars, batchVars>>
    /\ UNCHANGED apiHist

\* mutant: the handler returns no message
ExceptionResult_nomessage == [success |-> FALSE, message |-> NoMessage]

\* "except Exception as e: ... return False, str(e)"
ExceptionResult == Failed("exception")

ApiExcept ==
    /\ api_pc = "except"
    /\ api_result' = ExceptionResult
    /\ api_pc' = "done"
    /\ UNCHANGED <<auxVars, HIGH_END_GPU, output_file, decode_fn, prodVars, audio_queue,
                   consVars, out_exists, out_size, batchVars>>
    /\ UNCHANGED apiHist

InitApi ==
    /\ InitApiCall
    /\ output_file \in BOOLEAN
    /\ use_batching \in BOOLEAN
    /\ prompt \in TextsOf(ApiPieces)

NextApi ==
    \/ ApiStart
    \/ ApiDirect
    \/ ApiSplit
    \/ ApiGroup
    \/ ApiRunBatch
    \/ ApiBatchesDone
    \/ ApiStitch
    \/ ApiRemoveTemp
    \/ ApiCheck
    \/ ApiExcept

SpecApi == InitApi /\ [][NextApi]_vars

-----------------------------------------------------------------------------
(* stitch_wav_files. A file is its format parameters, its 16-bit samples and
   whether it carries bytes besides the header and the frames. *)

\* most input files of one stitch
MaxStitchFiles == 3
\* crossfade_samples, scaled down from int(24000 * 100 / 1000) = 2400
CrossfadeSamples == 3
\* longest input file, in samples
MaxSamples == 4

crossfade_samples == CrossfadeSamples

\* lengths of the input files tried
SampleCounts == {0, 1, CrossfadeSamples, MaxSamples}

\* amplitudes of the odd and of the even input files
AmplitudePairs == {<<-6, 7>>, <<1, 2>>, <<5, -2>>}

WavFile(params, samples, extra) ==
    [none |-> FALSE, params |-> params, samples |-> samples, extra |-> extra]

\* everything stitch_wav_files leaves alone
stitchRest == <<HIGH_END_GPU, output_file, decode_fn, prodVars, audio_queue,
                consVars, apiVars, batchVars, apiHist, tokVars, perfVars, moreVars>>

\* .astype(np.int16) of a float: the fraction is cut off
TruncDiv(x, d) == IF x >= 0 THEN x \div d ELSE -((-x) \div d)

\* np.linspace(1.0, 0.0, n) and np.linspace(0.0, 1.0, n), position k of
\* 0..n-1, as numerators over FadeDen(n)
FadeDen(n) == IF n > 1 THEN n - 1 ELSE 1

\* mutant: the fade-out rises
FadeOutWeight_rising(k, n) == k

FadeOutWeight(k, n) == IF n > 1 THEN n - 1 - k ELSE 1

FadeInWeight(k, n) == k

\* mutant: a buffer of exactly crossfade_samples samples is not blended
CanCrossfade_longer(final, audio) ==
    Len(final) > crossfade_samples /\ Len(audio) > crossfade_samples

\* "len(final_audio) >= crossfade_samples and len(audio) >= crossfade_samples"
CanCrossfade(final, audio) ==
    Len(final) >= crossfade_samples /\ Len(audio) >= crossfade_samples

\* crossfade_region
CrossfadeRegion(final, audio) ==
    LET n == crossfade_samples IN
    [k \in 1..n |->
        TruncDiv(final[Len(final) - n + k] * FadeOutWeight(k - 1, n)
                    + audio[k] * FadeInWeight(k - 1, n),
                 FadeDen(n))]

\* mutant: the blended head of the new segment is kept as well
KeepAfterBlend_all(audio) == audio

\* audio[crossfade_samples:]
KeepAfterBlend(audio) == SubSeq(audio, crossfade_samples + 1, Len(audio))

\* final_audio after segment audio was added
Combine(final, audio) ==
    IF CanCrossfade(final, audio)
    THEN SubSeq(final, 1, Len(final) - crossfade_samples)
            \o CrossfadeRegion(final, audio) \o KeepAfterBlend(audio)
    ELSE final \o audio

\* the files each sample of Combine(final, audio) came from, audio being file i
CombineSrc(src, final, audio, i) ==
    IF CanCrossfade(final, audio)
    THEN SubSeq(src, 1, Len(src) - crossfade_samples)
            \o [k \in 1..crossfade_samples |->
                   src[Len(src) - crossfade_samples + k] \cup {i}]
            \o [k \in 1..(Len(KeepAfterBlend(audio))) |-> {i}]
    ELSE src \o [k \in 1..Len(audio) |-> {i}]

\* mutant: a single file is decoded and written again
CopiesSingle_never(files) == FALSE

\* "if len(input_files) == 1"
CopiesSingle(files) == Len(files) = 1

StitchStart ==
    /\ st_pc = "start"
    /\ IF input_files = <<>>
       THEN st_pc' = "returned" /\ UNCHANGED st_i
       ELSE IF CopiesSingle(input_files)
            THEN st_pc' = "copy" /\ UNCHANGED st_i
            ELSE st_pc' = "loop" /\ st_i' = 1
    /\ UNCHANGED <<stitchRest, input_files, unreadable, final_audio, final_src,
                   first_params, st_out, boundaries>>

\* shutil.copy(input_files[0], output_file)
StitchCopy ==
    /\ st_pc = "copy"
    /\ \E writable \in BOOLEAN :
          IF unreadable = 1 \/ ~writable
          THEN st_pc' = "raised" /\ UNCHANGED st_out
          ELSE st_pc' = "returned" /\ st_out' = input_files[1]
    /\ UNCHANGED <<stitchRest, input_files, unreadable, st_i, final_audio,
                   final_src, first_params, boundaries>>

\* mutant: no read failure is re-raised
AbortsOnFailure_never(i) == FALSE

\* "if i == 0: raise" (i counts from 1 here)
AbortsOnFailure(i) == i = 1

\* one pass of "for i, input_file in enumerate(input_files)"
StitchRead ==
    /\ st_pc = "loop"
    /\ st_i <= Len(input_files)
    /\ IF unreadable = st_i
       THEN /\ st_pc' = IF AbortsOnFailure(st_i) THEN "raised" ELSE "loop"
            /\ st_i' = st_i + 1
            /\ UNCHANGED <<final_audio, final_src, first_params, boundaries>>
       ELSE LET audio == input_files[st_i].samples IN
            /\ first_params' = IF first_params = ""
                               THEN input_files[st_i].params
                               ELSE first_params
            /\ IF st_i = 1
               THEN /\ final_audio' = audio
                    /\ final_src' = [k \in 1..Len(audio) |-> {st_i}]
                    /\ UNCHANGED boundaries
               ELSE /\ final_audio' = Combine(final_audio, audio)
                    /\ final_src' = CombineSrc(final_src, final_audio, audio, st_i)
                    /\ boundaries' =
                          Append(boundaries,
                                 [i |-> st_i,
                                  before |-> Len(final_audio),
                                  blended |-> CanCrossfade(final_audio, audio)])
            /\ st_i' = st_i + 1
            /\ st_pc' = "loop"
    /\ UNCHANGED <<stitchRest, input_files, unreadable, st_out>>

\* the output file is written after the loop
StitchWrite ==
    /\ st_pc = "loop"
    /\ st_i > Len(input_files)
    /\ \E writable \in BOOLEAN :
          IF first_params = "" \/ ~writable
          THEN st_pc' = "raised" /\ UNCHANGED st_out
          ELSE /\ st_pc' = "returned"
               /\ st_out' = WavFile(first_params, final_audio, FALSE)
    /\ UNCHANGED <<stitchRest, input_files, unreadable, st_i, final_audio,
                   final_src, first_params, boundaries>>

InitStitch ==
    /\ InitCommon
    /\ decode_fn = "tagged"
    /\ HIGH_END_GPU = FALSE
    /\ output_file = FALSE
    /\ prod_pc = "start"
    /\ InitApiIdle
    /\ \E n \in 0..MaxStitchFiles, amp \in AmplitudePairs, mixed \in BOOLEAN,
          extra \in BOOLEAN :
          \E counts \in [1..n -> SampleCounts] :
             input_files =
                [i \in 1..n |->
                    WavFile(IF i = 1 \/ ~mixed THEN "p1" ELSE "p2",
                            Rep(amp[2 - (i % 2)], counts[i]),
                            extra /\ i = 1)]
    /\ unreadable \in 0..Len(input_files)
    /\ st_pc = "start"
    /\ st_i = 0
    /\ final_audio = <<>>
    /\ final_src = <<>>
    /\ first_params = ""
    /\ st_out = NoFile
    /\ boundaries = <<>>
    /\ InitTokensIdle
    /\ InitPerfIdle
    /\ InitMoreIdle

NextStitch == StitchStart \/ StitchCopy \/ StitchRead \/ StitchWrite

SpecStitch == InitStitch /\ [][NextStitch]_vars

-----------------------------------------------------------------------------
(* generate_tokens_from_api: one request per attempt, the whole response is
   received before the first token is yielded ("stream": False) *)

\* most custom tokens in one response
MaxRespTokens == 2

max_retries == 3

\* HTTP status codes that make raise_for_status raise
ErrorStatuses == {404, 499, 500, 503}

\* what one session.post followed by raise_for_status and response.json gives
Outcomes ==
    {[kind |-> "ok", status |-> 200],
     [kind |-> "timeout", status |-> 0],
     [kind |-> "connection", status |-> 0],
     [kind |-> "unexpected", status |-> 200]}
       \cup {[kind |-> "http", status |-> s] : s \in ErrorStatuses}

\* everything generate_tokens_from_api leaves alone
tokRest == <<HIGH_END_GPU, output_file, decode_fn, prodVars, audio_queue,
             consVars, apiVars, batchVars, apiHist, stitchVars, perfVars, moreVars>>

\* mutant: every HTTP error is retried
IsRetryable_anystatus(o) == o.kind \in {"timeout", "connection", "http"}

\* the except clauses that count a retry
IsRetryable(o) ==
    \/ o.kind = "timeout"
    \/ o.kind = "connection"
    \/ o.kind = "http" /\ o.status >= 500

\* mutant: one attempt more
MayAttempt_more(rc) == rc < max_retries + 1

\* "while retry_count < max_retries" and "if retry_count < max_retries"
MayAttempt(rc) == rc < max_retries

\* "wait_time = 2 ** retry_count"
WaitTime(rc) == 2 ^ rc

\* one pass of the while loop up to the first yield or to the except clause
TokRequest ==
    /\ tok_pc = "request"
    /\ MayAttempt(retry_count)
    /\ \E o \in Outcomes :
          /\ requests' = Append(requests, o)
          /\ IF o.kind = "ok"
             THEN /\ \E m \in 0..MaxRespTokens : pending' = [k \in 1..m |-> k]
                  /\ tok_pc' = "yielding"
                  /\ UNCHANGED retry_count
             ELSE IF IsRetryable(o)
             THEN /\ retry_count' = retry_count + 1
                  /\ tok_pc' = IF MayAttempt(retry_count') THEN "sleep" ELSE "ended"
                  /\ UNCHANGED pending
             ELSE /\ tok_pc' = "ended"
                  /\ UNCHANGED <<retry_count, pending>>
    /\ UNCHANGED <<tokRest, waits, tok_yielded>>

\* time.sleep(wait_time), then the next pass
TokSleep ==
    /\ tok_pc = "sleep"
    /\ waits' = Append(waits, WaitTime(retry_count))
    /\ tok_pc' = "request"
    /\ UNCHANGED <<tokRest, retry_count, requests, pending, tok_yielded>>

\* "yield token_text"
TokYield ==
    /\ tok_pc = "yielding"
    /\ pending /= <<>>
    /\ tok_yielded' = Append(tok_yielded, Head(pending))
    /\ pending' = Tail(pending)
    /\ UNCHANGED <<tokRest, retry_count, tok_pc, requests, waits>>

\* "return  # Successful completion"
TokReturn ==
    /\ tok_pc = "yielding"
    /\ pending = <<>>
    /\ tok_pc' = "ended"
    /\ UNCHANGED <<tokRest, retry_count, requests, waits, pending, tok_yielded>>

InitTokens ==
    /\ InitCommon
    /\ decode_fn = "tagged"
    /\ HIGH_END_GPU = FALSE
    /\ output_file = FALSE
    /\ prod_pc = "start"
    /\ InitApiIdle
    /\ InitStitchIdle
    /\ InitPerfIdle
    /\ InitMoreIdle
    /\ retry_count = 0
    /\ tok_pc = "request"
    /\ requests = <<>>
    /\ waits = <<>>
    /\ pending = <<>>
    /\ tok_yielded = <<>>

\* handling the rest of the response raises after the request succeeded (an
\* item of unexpected shape): "except Exception" prints and returns. No
\* request is made there, so none of the requests exceptions can occur
TokRaise ==
    /\ tok_pc = "yielding"
    /\ tok_pc' = "ended"
    /\ UNCHANGED <<tokRest, retry_count, requests, waits, pending, tok_yielded>>

NextTokens == TokRequest \/ TokSleep \/ TokYield \/ TokReturn \/ TokRaise

SpecTokens == InitTokens /\ [][NextTokens]_vars

-----------------------------------------------------------------------------
(* PerformanceMonitor and the module global perf_monitor, as used by calls of
   generate_speech_from_api and by their pipeline runs *)

\* calls of generate_speech_from_api in one process
MaxRequests == 2
\* most pipeline runs (batches) of one call
MaxRuns == 2
\* most counter updates of one pipeline run
MaxRunEvents == 2

Requests == 1..MaxRequests

\* everything the performance counters leave alone
perfRest == <<HIGH_END_GPU, output_file, decode_fn, prodVars, audio_queue,
              consVars, apiVars, batchVars, apiHist, stitchVars, tokVars, moreVars>>

\* the pipeline run call r is in
RunOf(r) == <<r, req_run[r]>>

\* the object the name perf_monitor denotes when a run uses it
MonitorOf(r) == perf_monitor

Touch(m, r) == [touched EXCEPT ![m] = @ \cup {RunOf(r)}]

\* "global perf_monitor; perf_monitor = PerformanceMonitor()", then the path
\* is chosen: one pipeline run, or one per batch
PerfReset(r) ==
    /\ req_pc[r] = "idle"
    /\ monitors' = Append(monitors, NewMonitor)
    /\ touched' = Append(touched, {})
    /\ perf_monitor' = Len(monitors) + 1
    /\ \E n \in 1..MaxRuns : req_runs' = [req_runs EXCEPT ![r] = n]
    /\ req_run' = [req_run EXCEPT ![r] = 1]
    /\ req_pc' = [req_pc EXCEPT ![r] = "run"]
    /\ UNCHANGED <<perfRest, run_events>>

\* perf_monitor.add_tokens() in generate_tokens_from_api
PerfAddTokens(r) ==
    /\ req_pc[r] = "run"
    /\ run_events[r] < MaxRunEvents
    /\ LET m == MonitorOf(r) IN
       /\ monitors' = [monitors EXCEPT ![m].token_count = @ + 1]
       /\ touched' = Touch(m, r)
    /\ run_events' = [run_events EXCEPT ![r] = @ + 1]
    /\ UNCHANGED <<perfRest, perf_monitor, req_pc, req_runs, req_run>>

\* perf_monitor.add_audio_chunk() in convert_to_audio
PerfAddAudioChunk(r) ==
    /\ req_pc[r] = "run"
    /\ run_events[r] < MaxRunEvents
    /\ LET m == MonitorOf(r) IN
       /\ monitors' = [monitors EXCEPT ![m].audio_chunks = @ + 1]
       /\ touched' = Touch(m, r)
    /\ run_events' = [run_events EXCEPT ![r] = @ + 1]
    /\ UNCHANGED <<perfRest, perf_monitor, req_pc, req_runs, req_run>>

\* the end of tokens_decoder_sync reads perf_monitor.start_time; then the
\* next batch starts, or the call returns
PerfRunEnd(r) ==
    /\ req_pc[r] = "run"
    /\ touched' = Touch(MonitorOf(r), r)
    /\ IF req_run[r] < req_runs[r]
       THEN /\ req_run' = [req_run EXCEPT ![r] = @ + 1]
            /\ UNCHANGED req_pc
       ELSE /\ req_pc' = [req_pc EXCEPT ![r] = "done"]
            /\ UNCHANGED req_run
    /\ run_events' = [run_events EXCEPT ![r] = 0]
    /\ UNCHANGED <<perfRest, monitors, perf_monitor, req_runs>>

InitPerf ==
    /\ InitCommon
    /\ decode_fn = "tagged"
    /\ HIGH_END_GPU = FALSE
    /\ output_file = FALSE
    /\ prod_pc = "start"
    /\ InitApiIdle
    /\ InitStitchIdle
    /\ InitTokensIdle
    /\ InitMoreIdle
    /\ monitors = <<NewMonitor>>
    /\ perf_monitor = 1
    /\ req_pc = [r \in Requests |-> "idle"]
    /\ req_runs = [r \in Requests |-> 1]
    /\ req_run = [r \in Requests |-> 1]
    /\ run_events = [r \in Requests |-> 0]
    /\ touched = <<{}>>

NextPerf ==
    \E r \in Requests :
       \/ PerfReset(r)
       \/ PerfAddTokens(r)
       \/ PerfAddAudioChunk(r)
       \/ PerfRunEnd(r)

SpecPerf == InitPerf /\ [][NextPerf]_vars

-----------------------------------------------------------------------------
(* handler.py: tts_handler and the storage client it uses *)

\* jobs one worker process handles
MaxJobs == 2

\* everything tts_handler leaves alone
handlerRest == <<HIGH_END_GPU, output_file, decode_fn, prodVars, audio_queue,
                 consVars, apiVars, batchVars, apiHist, stitchVars, tokVars,
                 perfVars, clockVars>>

\* {"error": ..., "status": "FAILED"}
FailedDict == Dict({"error", "status"}, "FAILED", "none")

\* response_payload as first assigned
OkDict ==
    Dict({"status", "voice", "content_type", "generation_time_seconds",
          "audio_file_size_bytes"}, "ok", "none")

WithUrl(d) ==
    Dict(d.keys \cup {"supabase_url", "storage_type"}, d.status, "supabase")

WithBase64(d) ==
    Dict(d.keys \cup {"audio_base64", "storage_type"}, d.status, "base64")

WithUploadError(d) == Dict(d.keys \cup {"upload_error"}, d.status, d.storage_type)

\* a job arrives: the statements before the try block
HandlerStart ==
    /\ h_pc \in {"idle", "returned"}
    /\ h_job < MaxJobs
    /\ h_job' = h_job + 1
    /\ temp_exists' = FALSE
    /\ s_client' = "None"
    /\ response_payload' = NoDict
    /\ \E input \in {"no_input", "no_text", "valid"}, store \in BOOLEAN :
          /\ store_in_supabase' = (input = "valid" /\ store)
          /\ IF input = "valid"
             THEN /\ h_pc' = "generate"
                  /\ h_response' = NoDict
                  /\ h_events' = {}
             ELSE /\ h_pc' = "returned"
                  /\ h_response' = FailedDict
                  /\ h_events' = {"invalid"}
    /\ UNCHANGED <<handlerRest, supabase_client_instance>>

\* "success, details = generate_speech_from_api(..., output_file=temp_output_path)"
\* and "if not success"
HandlerGenerate ==
    /\ h_pc = "generate"
    /\ \E created \in BOOLEAN :
          /\ temp_exists' = created
          /\ \/ /\ h_pc' = "except"
                /\ UNCHANGED <<h_response, h_events>>
             \/ /\ h_response' = FailedDict
                /\ h_events' = h_events \cup {"generation_failed"}
                /\ h_pc' = "finally"
             \/ /\ h_pc' = "exists"
                /\ UNCHANGED <<h_response, h_events>>
    /\ UNCHANGED <<handlerRest, h_job, store_in_supabase, supabase_client_instance,
                   s_client, response_payload>>

\* "if not os.path.exists(temp_output_path)", os.path.getsize (which may
\* raise), and the first assignment of response_payload
HandlerCheckFile ==
    /\ h_pc = "exists"
    /\ IF ~temp_exists
       THEN /\ h_response' = FailedDict
            /\ h_events' = h_events \cup {"file_missing"}
            /\ h_pc' = "finally"
            /\ UNCHANGED response_payload
       ELSE /\ \/ /\ response_payload' = OkDict
                  /\ h_pc' = IF store_in_supabase THEN "get_client" ELSE "encode"
               \/ /\ h_pc' = "except"
                  /\ UNCHANGED response_payload
            /\ UNCHANGED <<h_response, h_events>>
    /\ UNCHANGED <<handlerRest, h_job, store_in_supabase, temp_exists,
                   supabase_client_instance, s_client>>

\* mutant: a client that could not be initialised is used all the same
UsesClient_always(c) == TRUE

\* "if s_client and s_client.initialized"
UsesClient(c) == c = "initialized"

\* "s_client = await get_supabase_client()" in its try block, and the test
\* on s_client. get_supabase_client creates the global instance when it is
\* None or not initialized (the constructor may raise) and initialises it
\* (initialize_client may raise, leaving the instance not initialized)
HandlerGetClient ==
    /\ h_pc = "get_client"
    /\ \/ /\ supabase_client_instance = "initialized"
          /\ s_client' = "initialized"
          /\ UNCHANGED <<supabase_client_instance, h_events>>
       \/ /\ supabase_client_instance /= "initialized"
          /\ \/ /\ UNCHANGED supabase_client_instance
                /\ s_client' = "None"
                /\ h_events' = h_events \cup {"client_failed"}
             \/ /\ supabase_client_instance' = "created"
                /\ s_client' = "None"
                /\ h_events' = h_events \cup {"client_failed"}
             \/ /\ supabase_client_instance' = "initialized"
                /\ s_client' = "initialized"
                /\ UNCHANGED h_events
    /\ h_pc' = IF UsesClient(s_client') THEN "upload" ELSE "encode"
    /\ UNCHANGED <<handlerRest, h_job, store_in_supabase, temp_exists,
                   response_payload, h_response>>

\* "public_url, error_message = await s_client.upload_file(...)": every
\* failure inside upload_file comes back as (None, message)
HandlerUpload ==
    /\ h_pc = "upload"
    /\ \/ /\ response_payload' = WithUrl(response_payload)
          /\ h_response' = WithUrl(response_payload)
          /\ h_pc' = "finally"
          /\ UNCHANGED h_events
       \/ /\ h_events' = h_events \cup {"upload_failed"}
          /\ h_pc' = "encode"
          /\ UNCHANGED <<response_payload, h_response>>
    /\ UNCHANGED <<handlerRest, h_job, store_in_supabase, temp_exists,
                   supabase_client_instance, s_client>>

\* the three places that read the file and encode it, and
\* "return response_payload"; open or read may raise
HandlerEncode ==
    /\ h_pc = "encode"
    /\ \/ /\ h_pc' = "except"
          /\ UNCHANGED <<response_payload, h_response>>
       \/ LET d == IF "upload_failed" \in h_events
                   THEN WithUploadError(WithBase64(response_payload))
                   ELSE WithBase64(response_payload) IN
          /\ response_payload' = d
          /\ h_response' = d
          /\ h_pc' = "finally"
    /\ UNCHANGED <<handlerRest, h_job, store_in_supabase, temp_exists,
                   supabase_client_instance, s_client, h_events>>

\* "except Exception as e: ... return {...}"
HandlerExcept ==
    /\ h_pc = "except"
    /\ h_response' = FailedDict
    /\ h_events' = h_events \cup {"raised"}
    /\ h_pc' = "finally"
    /\ UNCHANGED <<handlerRest, h_job, store_in_supabase, temp_exists,
                   supabase_client_instance, s_client, response_payload>>

\* mutant: nothing is cleaned up
RemovesTemp_never(exists) == FALSE

\* "if os.path.exists(temp_output_path)" in the finally block
RemovesTemp(exists) == exists

\* the finally block: os.remove may raise OSError, which is logged; then the
\* handler returns
HandlerFinally ==
    /\ h_pc = "finally"
    /\ IF RemovesTemp(temp_exists)
       THEN \/ /\ temp_exists' = FALSE
               /\ UNCHANGED h_events
            \/ /\ h_events' = h_events \cup {"remove_failed"}
               /\ UNCHANGED temp_exists
       ELSE UNCHANGED <<temp_exists, h_events>>
    /\ h_pc' = "returned"
    /\ UNCHANGED <<handlerRest, h_job, store_in_supabase,
                   supabase_client_instance, s_client, response_payload,
                   h_response>>

InitHandler ==
    /\ InitCommon
    /\ decode_fn = "tagged"
    /\ HIGH_END_GPU = FALSE
    /\ output_file = FALSE
    /\ prod_pc = "start"
    /\ InitApiIdle
    /\ InitStitchIdle
    /\ InitTokensIdle
    /\ InitPerfIdle
    /\ InitClockIdle
    /\ InitHandlerIdle

NextHandler ==
    \/ HandlerStart
    \/ HandlerGenerate
    \/ HandlerCheckFile
    \/ HandlerGetClient
    \/ HandlerUpload
    \/ HandlerEncode
    \/ HandlerExcept
    \/ HandlerFinally

SpecHandler == InitHandler /\ [][NextHandler]_vars

-----------------------------------------------------------------------------
(* Claims *)

SentinelEnqueued == \E i \in 1..Len(enqueued) : IsNone(enqueued[i])
SegmentsEnqueued == SelectSeq(enqueued, LAMBDA x : ~IsNone(x))
\* a token that is discarded: no id, or an id <= 0
IsNoise(t) == t.none \/ t.id <= 0
AcceptedOf(ts) == SelectSeq(ts, LAMBDA t : ~IsNoise(t))
\* the ids of the accepted tokens among ts, in arrival order
AcceptedIds(ts) == [i \in 1..Len(AcceptedOf(ts)) |-> AcceptedOf(ts)[i].id]
InLoop(pc) == pc \in {"get", "is_set", "empty"}
DecodeReturned == Len(calls') = Len(calls) + 1
NonNullBefore == \E i \in 1..Len(calls) : ~IsNone(calls[i].res)

\* C1: a producer that has terminated has set producer_done_event and has
\* enqueued the sentinel as its last item, whatever ended the run (exhausted
\* tokens, a raising token sequence, a raising decode call); and the sentinel
\* is never enqueued before the flag is set.
C1_ProducerSignalsCompletion ==
    /\ prod_pc = "terminated" =>
          /\ producer_done_event
          /\ Len(enqueued) > 0
          /\ IsNone(enqueued[Len(enqueued)])
    /\ SentinelEnqueued => producer_done_event

C1_Witness == prod_pc = "terminated" /\ caught = "decode" /\ Len(enqueued) >= 2

\* C2: the items ever put into audio_queue are non-empty segments followed by
\* at most one sentinel, which is the last item; once the producer has
\* terminated there is exactly one sentinel, and nothing is put after it.
C2_QueueHistoryShape ==
    /\ \A i \in 1..Len(enqueued) :
          IF IsNone(enqueued[i])
          THEN i = Len(enqueued)
          ELSE Len(enqueued[i].bytes) > 0
    /\ prod_pc = "terminated" <=> SentinelEnqueued

C2_Witness ==
    /\ prod_pc = "terminated"
    /\ Len(enqueued) >= 3
    /\ \E i \in 1..Len(yielded) : yielded[i].bytes = <<>>

\* C3: audio_segments is always a prefix of the segments enqueued so far, in
\* the same order, with or without an output file, also when it is returned.
C3_SegmentsArePrefix == IsPrefix(audio_segments, SegmentsEnqueued)

C3_Witness ==
    /\ cons_pc = "returned"
    /\ Len(audio_segments) >= 3
    /\ ~output_file

\* C4: the consumer leaves its loop only in a step that dequeues the sentinel,
\* or in the queue-empty check made after a timed-out get with
\* producer_done_event set and the queue empty; while the flag is unset no
\* timed-out get ends the loop.
C4_LoopExit ==
    [][(InLoop(cons_pc) /\ ~InLoop(cons_pc')) =>
          \/ /\ cons_pc = "get"
             /\ audio_queue /= <<>>
             /\ IsNone(Head(audio_queue))
             /\ audio_queue' = Tail(audio_queue)
          \/ /\ cons_pc = "empty"
             /\ producer_done_event
             /\ audio_queue = <<>>]_vars

C4_Witness == cons_pc = "join" /\ prod_pc = "put_sentinel" /\ Len(audio_segments) >= 1

\* C5: audio_queue never holds more than queue_size items, and while it holds
\* queue_size items a producer waiting in put stays there: it enqueues
\* nothing and pulls no token.
C5_BoundedQueue ==
    /\ [](Len(audio_queue) <= queue_size)
    /\ [][(Len(audio_queue) = queue_size /\ prod_pc \in {"put", "put_sentinel"}) =>
             /\ prod_pc' = prod_pc
             /\ tokens' = tokens
             /\ enqueued' = enqueued]_vars

C5_Witness == Len(audio_queue) = queue_size /\ prod_pc = "put" /\ HIGH_END_GPU

\* C6 as stated: with N >= 28 accepted tokens and a decode function that
\* returns the same non-empty bytes on every call, tokens_decoder yields
\* 1 + floor((N-7)/7) segments.
C6_AsStated ==
    (prod_pc = "dec_done" /\ decode_fn = "fixed" /\ count >= 28) =>
        Len(yielded) = 1 + ((count - 7) \div 7)

\* C6 amended: under the same conditions tokens_decoder yields
\* 1 + floor((N-21)/7) segments: one at count 7, then one at each multiple
\* of 7 from 28 on.
C6_SegmentCount ==
    (prod_pc = "dec_done" /\ decode_fn = "fixed" /\ count >= 28) =>
        Len(yielded) = 1 + ((count - 21) \div 7)

C6_Witness ==
    /\ prod_pc = "dec_done"
    /\ decode_fn = "fixed"
    /\ count >= 35
    /\ NoiseUsed > 0

\* C7 as stated: when a decode call made before the first chunk returns null
\* or an empty byte string, nothing is yielded and first_chunk_processed
\* stays false.
C7_AsStated ==
    [][(DecodeReturned /\ ~first_chunk_processed
          /\ ~Truthy(calls'[Len(calls')].res)) =>
             /\ yielded' = yielded
             /\ ~first_chunk_processed']_vars

\* C8: first_chunk_processed never goes back to false, and it becomes true
\* exactly in the step of the first decode call that returns a non-null
\* result.
C8_PhaseTransition ==
    [][/\ first_chunk_processed => first_chunk_processed'
       /\ (~first_chunk_processed /\ first_chunk_processed') =>
             /\ DecodeReturned
             /\ ~IsNone(calls'[Len(calls')].res)
             /\ ~NonNullBefore
       /\ (DecodeReturned /\ ~IsNone(calls'[Len(calls')].res) /\ ~NonNullBefore) =>
             (~first_chunk_processed /\ first_chunk_processed')]_vars

C8_Witness ==
    /\ first_chunk_processed
    /\ Len(calls) >= 2
    /\ IsNone(calls[1].res)

\* C9: in Phase A a decode call follows an accepted token iff at least 7
\* tokens were accepted so far, its frame is the last 7 accepted tokens in
\* arrival order, and no decode call follows anything but an accepted token.
C9_PhaseA ==
    [][/\ (count' = count + 1 /\ ~first_chunk_processed) =>
             LET acc == AcceptedIds(tokens') IN
             /\ (prod_pc' = "decode") <=> (Len(acc) >= 7)
             /\ prod_pc' = "decode" =>
                   buffer_to_proc' = SubSeq(acc, Len(acc) - 6, Len(acc))
       /\ (prod_pc' = "decode" /\ prod_pc /= "decode") => count' = count + 1]_vars

C9_Witness ==
    /\ prod_pc = "decode"
    /\ ~first_chunk_processed
    /\ count > 7
    /\ NoiseUsed > 0

\* C10: in Phase B a decode call follows an accepted token iff the count is a
\* multiple of 7 and at least 28, and its frame is the last 28 accepted
\* tokens in arrival order.
C10_PhaseB ==
    [][(count' = count + 1 /\ first_chunk_processed) =>
          LET acc == AcceptedIds(tokens') IN
          /\ (prod_pc' = "decode") <=> (Len(acc) % 7 = 0 /\ Len(acc) >= 28)
          /\ prod_pc' = "decode" =>
                buffer_to_proc' = SubSeq(acc, Len(acc) - 27, Len(acc))]_vars

C10_Witness ==
    /\ prod_pc = "decode"
    /\ first_chunk_processed
    /\ count = 35
    /\ NoiseUsed > 0


\* C11: every decode call gets a frame of exactly 7 or exactly 28 tokens that
\* is a suffix of buffer, and a count equal to the number of tokens accepted
\* so far; the counts of successive decode calls strictly increase.
C11_FrameShape ==
    /\ prod_pc = "decode" =>
          /\ Len(buffer_to_proc) \in {7, 28}
          /\ Len(buffer_to_proc) <= Len(buffer)
          /\ buffer_to_proc =
                SubSeq(buffer, Len(buffer) - Len(buffer_to_proc) + 1, Len(buffer))
          /\ count = Len(AcceptedOf(tokens))
          /\ calls /= <<>> => calls[Len(calls)].count < count
    /\ \A i \in 1..(Len(calls) - 1) : calls[i].count < calls[i + 1].count

C11_Witness ==
    /\ prod_pc = "decode"
    /\ Len(buffer_to_proc) = 28
    /\ Len(calls) >= 2
    /\ NoiseUsed > 0

\* C12: a token with no id or an id <= 0 leaves buffer, count and
\* first_chunk_processed unchanged, triggers no decode call and leaves the
\* decoder ready for the next token; buffer always holds exactly the
\* accepted tokens of the sequence, as if the discarded ones were absent.
C12_NoiseIgnored ==
    /\ [](buffer = AcceptedIds(tokens) /\ count = Len(buffer))
    /\ [][(Len(tokens') = Len(tokens) + 1 /\ IsNoise(tokens'[Len(tokens')])) =>
             /\ buffer' = buffer
             /\ count' = count
             /\ first_chunk_processed' = first_chunk_processed
             /\ calls' = calls
             /\ prod_pc' = "next"]_vars

C12_Witness ==
    /\ Len(tokens) >= 8
    /\ IsNoise(tokens[8])
    /\ first_chunk_processed
    /\ Len(calls) >= 2


RECURSIVE ConcatBytes(_)
ConcatBytes(segs) ==
    IF segs = <<>> THEN <<>> ELSE Head(segs).bytes \o ConcatBytes(Tail(segs))

\* the run produced no audio: fewer than 7 tokens were accepted, or no decode
\* call returned a non-empty result
NoAudioRun == count < 7 \/ \A i \in 1..Len(calls) : ~Truthy(calls[i].res)

\* C13: when the run produced no audio, tokens_decoder_sync returns an empty
\* list and the non-batched generate_speech_from_api returns (False, message)
\* with a message saying that no audio was generated.
C13_NoAudioFails ==
    /\ (cons_pc = "returned" /\ NoAudioRun) => audio_segments = <<>>
    /\ (api_pc = "done" /\ NoAudioRun) =>
          /\ ~api_result.success
          /\ ~api_result.message.none
          /\ api_result.message.text \in {"no_audio_segments", "file_no_audio_data"}

C13_Witness ==
    /\ api_pc = "done"
    /\ output_file
    /\ count >= 7
    /\ calls /= <<>>
    /\ NoAudioRun

\* C14: once the token sequence or the decode call has raised, the producer
\* only runs its finally block, the sentinel is its last put, and the list
\* tokens_decoder_sync returns is exactly the segments enqueued, in order.
C14_ProducerFault ==
    /\ caught /= "none" => prod_pc \in {"set_done", "put_sentinel", "terminated"}
    /\ (caught /= "none" /\ prod_pc = "terminated") =>
          IsNone(enqueued[Len(enqueued)])
    /\ (caught /= "none" /\ cons_pc = "returned") =>
          audio_segments = SegmentsEnqueued

C14_Witness ==
    /\ cons_pc = "returned"
    /\ caught = "token_gen"
    /\ Len(audio_segments) >= 2

\* C17: with an output file, the bytes written plus the bytes still buffered
\* are always the concatenation of the segments received, and when
\* tokens_decoder_sync returns the bytes written are exactly the
\* concatenation of the returned segments, on both exits of the loop.
C17_SinkMatchesSegments ==
    /\ (output_file /\ cons_pc /= "returned") =>
          sink \o write_buffer = ConcatBytes(audio_segments)
    /\ (output_file /\ cons_pc = "returned") =>
          sink = ConcatBytes(audio_segments)
    /\ ~output_file => sink = <<>>

C17_Witness ==
    /\ cons_pc = "returned"
    /\ output_file
    /\ prod_pc = "put_sentinel"
    /\ Len(audio_segments) >= 3


RECURSIVE JoinWithSpaces(_)
JoinWithSpaces(ss) ==
    IF ss = <<>> THEN <<>>
    ELSE IF Len(ss) = 1 THEN Head(ss)
    ELSE Head(ss) \o <<" ">> \o JoinWithSpaces(Tail(ss))

NonSpace(s) == SelectSeq(s, LAMBDA c : ~IsSpace(c))

Grouped == api_pc = "batches"

\* C18: the batcher emits no empty batch, and the non-whitespace characters of
\* the batches, in order, are exactly those of the input text, so every
\* character is in one batch, text after the last boundary included.
C18_NothingDropped ==
    Grouped =>
       /\ \A i \in 1..Len(batches) : batches[i] /= <<>>
       /\ NonSpace(Flatten(batches)) = NonSpace(prompt)

C18_Witness ==
    /\ Grouped
    /\ Len(batches) >= 2
    /\ Len(prompt) >= 2
    /\ prompt[Len(prompt)] = "f"
    /\ batches[Len(batches)][Len(batches[Len(batches)])] = "f"

\* C19 as stated: every batch of more than one unit is at most
\* max_batch_chars characters long, joining spaces included.
C19_AsStated ==
    Grouped =>
       \A i \in 1..Len(batches) :
          \/ Len(batches[i]) <= max_batch_chars
          \/ \E j \in 1..Len(sentences) : batches[i] = sentences[j]

\* batches is units cut into consecutive groups, each joined with spaces
RECURSIVE IsGrouping(_, _)
IsGrouping(bs, units) ==
    IF bs = <<>>
    THEN units = <<>>
    ELSE \E k \in 1..Len(units) :
            /\ Head(bs) = JoinWithSpaces(SubSeq(units, 1, k))
            /\ IsGrouping(Tail(bs), SubSeq(units, k + 1, Len(units)))

\* C20: joining the batches with single spaces gives the units joined with
\* single spaces, and the batches are the units cut into consecutive groups,
\* so order is kept and no unit is split.
C20_OrderKept ==
    Grouped =>
       /\ JoinWithSpaces(batches) = JoinWithSpaces(sentences)
       /\ IsGrouping(batches, sentences)

C20_Witness ==
    /\ Grouped
    /\ Len(batches) >= 2
    /\ Len(sentences) > Len(batches)


\* C15: generate_speech_from_api ends every run, an exception in the pipeline
\* or the stitcher included, by returning a pair: success with no message, or
\* failure with a message.
C15_StructuredOutcome ==
    /\ api_pc \in {"start", "direct", "split", "group", "batches", "stitch",
                   "remove", "check", "except", "done"}
    /\ api_pc = "except" => ENABLED ApiExcept
    /\ api_pc = "done" =>
          /\ api_result.success \in BOOLEAN
          /\ api_result.success => api_result.message.none
          /\ ~api_result.success => ~api_result.message.none

C15_Witness ==
    /\ api_pc = "done"
    /\ api_result = Failed("exception")
    /\ Len(batch_temp_files) >= 2

\* C16: with an output file, success is returned only when the file exists and
\* holds more than 44 bytes; a missing or header-only file gives
\* (False, message).
C16_SinkChecked ==
    (api_pc = "done" /\ output_file) =>
       /\ api_result.success => (out_exists /\ out_size > 44)
       /\ (~out_exists \/ out_size <= 44) =>
             (~api_result.success /\ ~api_result.message.none)

C16_Witness ==
    /\ api_pc = "done"
    /\ output_file
    /\ all_audio_segments /= <<>>
    /\ out_exists
    /\ out_size = 44
    /\ api_result = Failed("file_empty_or_header_only")


\* bs is units cut into consecutive groups joined with spaces, and every
\* group holding a unit longer than max holds that unit alone
RECURSIVE OversizedAlone(_, _, _)
OversizedAlone(bs, units, max) ==
    IF bs = <<>>
    THEN units = <<>>
    ELSE \E k \in 1..Len(units) :
            /\ Head(bs) = JoinWithSpaces(SubSeq(units, 1, k))
            /\ \A m \in 1..k : Len(units[m]) > max => k = 1
            /\ OversizedAlone(Tail(bs), SubSeq(units, k + 1, Len(units)), max)

\* C21: a unit longer than max_batch_chars is the only unit of its batch and
\* the batch is that unit unchanged, whether the unit comes first, in the
\* middle or last.
C21_OversizedUnitAlone ==
    Grouped => OversizedAlone(batches, sentences, max_batch_chars)

C21_Witness ==
    /\ Grouped
    /\ Len(sentences) = 3
    /\ Len(batches) = 3
    /\ Len(sentences[2]) > max_batch_chars
    /\ batches[2] = sentences[2]
    /\ Len(sentences[1]) <= max_batch_chars

\* bs is units cut into consecutive groups such that a unit joins the current
\* batch only when the batch stays within max, and opens a new batch only
\* when joining would have exceeded max
RECURSIVE SplitsExactly(_, _, _)
SplitsExactly(bs, units, max) ==
    IF bs = <<>>
    THEN units = <<>>
    ELSE \E k \in 1..Len(units) :
            /\ Head(bs) = JoinWithSpaces(SubSeq(units, 1, k))
            /\ \A m \in 2..k : Len(JoinWithSpaces(SubSeq(units, 1, m))) <= max
            /\ k < Len(units) => Len(JoinWithSpaces(SubSeq(units, 1, k + 1))) > max
            /\ SplitsExactly(Tail(bs), SubSeq(units, k + 1, Len(units)), max)

\* C22 as stated: a new batch is started exactly when adding the next unit to
\* the non-empty current batch would make the batch exceed max_batch_chars.
C22_AsStated ==
    Grouped => SplitsExactly(batches, sentences, max_batch_chars)


Batched == use_batching /\ Len(prompt) >= max_batch_chars

\* C23: splitting and grouping are invoked exactly when use_batching is true
\* and len(prompt) >= max_batch_chars; otherwise exactly one pipeline runs, on
\* the whole prompt, writing to output_file itself, and the stitcher is never
\* called.
C23_PathChoice ==
    /\ split_calls > 0 => Batched
    /\ (Batched /\ api_pc \notin {"start", "split"}) =>
          (split_calls = 1 /\ api_pc /= "direct")
    /\ ~Batched =>
          /\ split_calls = 0
          /\ stitch_calls = 0
          /\ sentences = <<>> /\ batches = <<>> /\ batch_temp_files = <<>>
          /\ Len(pipeline_runs) <= 1
          /\ \A i \in 1..Len(pipeline_runs) :
                /\ pipeline_runs[i].text = prompt
                /\ pipeline_runs[i].target =
                      (IF output_file THEN "output_file" ELSE "none")
          /\ api_pc \in {"check", "except", "done"} => Len(pipeline_runs) = 1

C23_Witness ==
    /\ api_pc = "done"
    /\ ~use_batching
    /\ Len(prompt) >= max_batch_chars
    /\ output_file
    /\ Len(pipeline_runs) = 1
    /\ api_result.success


\* C24: with exactly one input file, the output file is identical to it.
C24_SingleFileCopied ==
    (st_pc = "returned" /\ Len(input_files) = 1) => st_out = input_files[1]

C24_Witness ==
    /\ st_pc = "returned"
    /\ Len(input_files) = 1
    /\ input_files[1].extra
    /\ Len(input_files[1].samples) > 0
    /\ st_out = input_files[1]


\* both files of a stitch of two files have been read
TwoStitched ==
    /\ Len(input_files) = 2
    /\ unreadable = 0
    /\ st_pc \in {"loop", "returned"}
    /\ st_i = 3

\* C25: two buffers of at least crossfade_samples samples each give
\* len(a) + len(b) - crossfade_samples samples; when either is shorter the
\* result is the plain concatenation, of len(a) + len(b) samples.
C25_StitchedLength ==
    TwoStitched =>
       LET a == input_files[1].samples
           b == input_files[2].samples
       IN  /\ IF Len(a) >= CrossfadeSamples /\ Len(b) >= CrossfadeSamples
              THEN Len(final_audio) = Len(a) + Len(b) - CrossfadeSamples
              ELSE final_audio = a \o b
           /\ st_pc = "returned" => st_out.samples = final_audio

C25_Witness ==
    /\ TwoStitched
    /\ st_pc = "returned"
    /\ Len(input_files[1].samples) = CrossfadeSamples
    /\ Len(input_files[2].samples) > CrossfadeSamples
    /\ Len(final_audio) = Len(input_files[2].samples)

\* the blended region of a stitch of two constant buffers longer than
\* crossfade_samples
BlendOfTwo ==
    /\ TwoStitched
    /\ Len(input_files[1].samples) > CrossfadeSamples
    /\ Len(input_files[2].samples) > CrossfadeSamples

RegionAt(k) == final_audio[Len(input_files[1].samples) - CrossfadeSamples + k]

Between(x, a, b) == (a <= x /\ x <= b) \/ (b <= x /\ x <= a)

StrictlyBetween(x, a, b) == (a < x /\ x < b) \/ (b < x /\ x < a)

\* C26 as stated: every sample of the blended region lies strictly between
\* the two amplitudes.
C26_AsStated ==
    BlendOfTwo =>
       \A k \in 1..CrossfadeSamples :
          StrictlyBetween(RegionAt(k), input_files[1].samples[1],
                          input_files[2].samples[1])

\* C26: every sample of the blended region lies between the two amplitudes A
\* and B, these included: the first sample is A and the last is B; from one
\* sample to the next the region never moves back towards A.
C26_BlendBetween ==
    BlendOfTwo =>
       LET A == input_files[1].samples[1]
           B == input_files[2].samples[1]
       IN  /\ \A k \in 1..CrossfadeSamples : Between(RegionAt(k), A, B)
           /\ RegionAt(1) = A
           /\ RegionAt(CrossfadeSamples) = B
           /\ \A k \in 1..(CrossfadeSamples - 1) :
                 IF A <= B
                 THEN RegionAt(k) <= RegionAt(k + 1)
                 ELSE RegionAt(k) >= RegionAt(k + 1)

C26_Witness ==
    /\ BlendOfTwo
    /\ st_pc = "returned"
    /\ input_files[1].samples[1] = -6
    /\ input_files[2].samples[1] = 7
    /\ \E k \in 2..(CrossfadeSamples - 1) : StrictlyBetween(RegionAt(k), -6, 7)


\* a stitch of three or more files, all of them readable
ManyStitched == Len(input_files) >= 3 /\ unreadable = 0

SamplesOf(i) == Len(input_files[i].samples)

RECURSIVE StitchAll(_, _)
StitchAll(final, buffers) ==
    IF buffers = <<>>
    THEN final
    ELSE StitchAll(Combine(final, Head(buffers)), Tail(buffers))

\* the samples of the input files except file skip, in order
SamplesExcept(skip) ==
    LET keep == SelectSeq([i \in 1..Len(input_files) |-> i], LAMBDA i : i /= skip)
    IN  [k \in 1..Len(keep) |-> input_files[keep[k]].samples]

SeveralInputs == Len(input_files) >= 2

\* C28: with several inputs, a read failure of the first file aborts the
\* stitch and no output file is written; a read failure of a later file is
\* not raised, the result is the stitch of the other files in order, and the
\* output carries the parameters of the first file.
C28_ReadFailures ==
    SeveralInputs =>
       /\ (unreadable = 1 /\ st_i >= 2) => (st_pc = "raised" /\ st_out = NoFile)
       /\ (unreadable /= 1 /\ st_pc = "raised") =>
             (st_i > Len(input_files) /\ st_out = NoFile)
       /\ (unreadable /= 1 /\ st_i > Len(input_files)) =>
             LET bufs == SamplesExcept(unreadable) IN
             final_audio = StitchAll(Head(bufs), Tail(bufs))
       /\ st_pc = "returned" =>
             st_out = WavFile(input_files[1].params, final_audio, FALSE)

C28_Witness ==
    /\ st_pc = "returned"
    /\ Len(input_files) = 3
    /\ unreadable = 2
    /\ SamplesOf(2) > 0
    /\ SamplesOf(3) > 0
    /\ input_files[3].params /= input_files[1].params
    /\ st_out.params = input_files[1].params


\* a timeout, a connection error or an HTTP status of 500 or more
FailedRetryably(o) ==
    o.kind \in {"timeout", "connection"} \/ (o.kind = "http" /\ o.status >= 500)

\* C29: one call makes at most 3 requests; a request follows another only
\* after a timeout, a connection error or a status >= 500, and after a wait
\* of 2^k seconds before attempt k+1; after 3 such failures the generator
\* has ended and yielded nothing, and it does not give up earlier.
C29_BoundedRetries ==
    /\ Len(requests) <= 3
    /\ \A k \in 1..(Len(requests) - 1) :
          /\ FailedRetryably(requests[k])
          /\ Len(waits) >= k
          /\ waits[k] = 2 ^ k
    /\ Len(waits) <= Len(requests)
    /\ (Len(requests) = 3 /\ FailedRetryably(requests[3])) =>
          (tok_pc = "ended" /\ tok_yielded = <<>>)
    /\ (tok_pc = "ended" /\ requests /= <<>>
          /\ FailedRetryably(requests[Len(requests)])) => Len(requests) = 3

C29_Witness ==
    /\ tok_pc = "ended"
    /\ Len(requests) = 3
    /\ requests[1].kind = "timeout"
    /\ requests[2].kind = "http"
    /\ requests[3].kind = "connection"
    /\ waits = <<2, 4>>


\* C30 as stated: no PerformanceMonitor object is read or written by two
\* different pipeline runs.
C30_AsStated ==
    \A m \in 1..Len(monitors) : Cardinality(touched[m]) <= 1

\* C31: the list tokens_decoder_sync returns holds every segment the producer
\* enqueued, in order, on both exits of the consumer loop, and nothing is
\* enqueued but the sentinel once the consumer has left its loop.
C31_NoSegmentLost ==
    ~InLoop(cons_pc) /\ cons_pc /= "init" => audio_segments = SegmentsEnqueued

\* the consumer left through the flag-and-empty check; the sentinel came later
C31_Witness ==
    /\ cons_pc = "returned"
    /\ prod_pc = "terminated"
    /\ audio_queue = <<NoneValue>>
    /\ caught = "none"
    /\ Len(audio_segments) >= 2

ProducerBlocked ==
    prod_pc \in {"put", "put_sentinel"} /\ Len(audio_queue) = queue_size
ConsumerStopped == cons_pc \in {"join", "final", "returned"}

\* C32: under fair scheduling tokens_decoder_sync returns; a consumer waiting
\* in get always has a step to take (an item, or the timeout); and the
\* producer is never waiting on a full queue after the consumer left its loop.
C32_EventuallyReturns ==
    /\ [](cons_pc = "get" => ENABLED (ConsumerGet \/ ConsumerTimeout))
    /\ [](~(ProducerBlocked /\ ConsumerStopped))
    /\ <>(cons_pc = "returned")

\* the producer waited on a full queue and the call returned all the same
C32_Witness ==
    /\ cons_pc = "returned"
    /\ prod_pc = "terminated"
    /\ Len(enqueued) > queue_size + 1
    /\ audio_queue = <<>>
    /\ ~HIGH_END_GPU

\* a check_interval and the slack of the strict comparison
FlushPeriod == check_interval + 1

\* C33 as stated: while the consumer is in its loop the buffer stays below
\* the high-water mark, and buffered data is never left unwritten for more
\* than FlushPeriod clock advances in a row, segments arriving or not.
C33_AsStated ==
    InLoop(cons_pc) =>
       /\ Len(write_buffer) < buffer_max_size
       /\ stale <= FlushPeriod

\* the pipeline run of batch i returned no segment
EmptyRun(i) == \A k \in 1..Len(all_audio_segments) : all_audio_segments[k] /= i

\* C34 as stated: a batched call in which the pipeline run of some batch
\* returned no segment does not return success.
C34_AsStated ==
    (api_pc = "done" /\ Batched /\ \E i \in 1..(batch_no - 1) : EmptyRun(i)) =>
       ~api_result.success

SplitDone == api_pc \in {"group", "batches"}

\* units is parts cut into consecutive groups, each joined with single
\* spaces, and each group ends at the first part with which it reaches
\* min_chars, or at the last part
RECURSIVE GreedyMerged(_, _)
GreedyMerged(units, parts) ==
    IF units = <<>>
    THEN parts = <<>>
    ELSE \E k \in 1..Len(parts) :
            /\ Head(units) = JoinWithSpaces(SubSeq(parts, 1, k))
            /\ k > 1 => Len(JoinWithSpaces(SubSeq(parts, 1, k - 1))) < min_chars
            /\ k < Len(parts) => Len(Head(units)) >= min_chars
            /\ GreedyMerged(Tail(units), SubSeq(parts, k + 1, Len(parts)))

\* C35: every unit split_text_into_sentences returns, except possibly the
\* last, has at least min_chars characters; the units are the sentences
\* found, in order, a short one joined with the following ones by single
\* spaces until min_chars is reached or the text ends.
C35_ShortUnitsMerged ==
    SplitDone =>
       /\ \A i \in 1..(Len(sentences) - 1) : Len(sentences[i]) >= min_chars
       /\ GreedyMerged(sentences, SplitParts(prompt))
       /\ JoinWithSpaces(sentences) = JoinWithSpaces(SplitParts(prompt))

C35_Witness ==
    /\ SplitDone
    /\ Len(sentences) = 2
    /\ Len(SplitParts(prompt)) = 3
    /\ Len(SplitParts(prompt)[1]) < min_chars
    /\ Len(sentences[1]) >= min_chars
    /\ Len(sentences[2]) < min_chars

\* the positions of text at which the first loop ends a sentence
RECURSIVE BoundaryPositions(_, _)
BoundaryPositions(text, off) ==
    LET k == FirstBoundary(text) IN
    IF k = 0
    THEN {}
    ELSE {off + k} \cup BoundaryPositions(SubSeq(text, k + 1, Len(text)), off + k)

\* reading 1 of "three positions back": counted from the whitespace
\* inclusive, the character before the terminator
ClaimedNear(text) ==
    { p \in 3..Len(text) :
         /\ IsSpace(text[p])
         /\ IsSentenceEnd(text[p - 1])
         /\ text[p - 2] \notin {".", " "} }

\* reading 2: three characters before the whitespace
ClaimedFar(text) ==
    { p \in 4..Len(text) :
         /\ IsSpace(text[p])
         /\ IsSentenceEnd(text[p - 1])
         /\ text[p - 3] \notin {".", " "} }

PrevBoundary(B, p) ==
    IF \E q \in B : q < p
    THEN CHOOSE q \in B : q < p /\ \A r \in B : r < p => r <= q
    ELSE 0

\* the sentences a set of boundaries cuts text into, stripped, empty ones
\* left out
CutAt(text, B) ==
    LET ends   == B \cup {Len(text)}
        Seg(e) == Strip(SubSeq(text, PrevBoundary(B, e) + 1, e))
        kept   == { e \in ends : Seg(e) /= <<>> }
        Nth(n) == CHOOSE e \in kept : Cardinality({ d \in kept : d <= e }) = n
    IN [n \in 1..Cardinality(kept) |-> Seg(Nth(n))]

FailedFinally(o) == o.kind = "unexpected" \/ (o.kind = "http" /\ o.status < 500)

\* C37: no request is made once a token has been yielded, the tokens yielded
\* are a prefix of one response with nothing repeated, and a request that
\* ends with an HTTP status below 500 or an unexpected exception is the last
\* one: the generator has ended without yielding.
C37_OneResponse ==
    /\ [][tok_yielded /= <<>> => requests' = requests]_vars
    /\ [](\A i \in 1..Len(tok_yielded) : tok_yielded[i] = i)
    /\ [](tok_yielded /= <<>> => requests[Len(requests)].kind = "ok")
    /\ [](\A k \in 1..Len(requests) :
             FailedFinally(requests[k]) =>
                (k = Len(requests) /\ tok_pc = "ended" /\ tok_yielded = <<>>))

\* an exception after the first token of a response obtained on the second
\* attempt: the generator ended, the remaining token was not yielded
C37_Witness ==
    /\ tok_pc = "ended"
    /\ Len(requests) = 2
    /\ requests[2].kind = "ok"
    /\ tok_yielded = <<1>>
    /\ pending = <<2>>

\* C38 as stated: when a batched call with an output file has returned, no
\* temporary per-batch file exists, whatever the call returned.
C38_AsStated ==
    (api_pc = "done" /\ Batched /\ output_file) =>
       \A i \in 1..Len(batch_temp_files) : ~batch_temp_files[i].exists

Returned == h_pc = "returned" /\ "invalid" \notin h_events

\* C39 as stated: once tts_handler has returned for a valid job, the
\* temporary output file does not exist.
C39_AsStated == Returned => ~temp_exists

\* C39: once tts_handler has returned for a valid job, the temporary output
\* file does not exist unless os.remove raised OSError in the finally block,
\* whichever way the handler left its try block.
C39_TempRemoved ==
    Returned => (temp_exists <=> "remove_failed" \in h_events)

\* the file was there when an exception was handled, and is gone
C39_Witness ==
    /\ Returned
    /\ "raised" \in h_events
    /\ "upload_failed" \in h_events
    /\ ~temp_exists
    /\ h_response = FailedDict

StorageFailed == "client_failed" \in h_events \/ "upload_failed" \in h_events

====
